---- MODULE Spec2Model ----
(***************************************************************************)
(* State-machine model of the ASOS scraping pipeline:                      *)
(*   - AsosScraper.get_product_links under its tenacity @retry wrapper     *)
(*     (fashion_scraper/asos/scraper.py),                                  *)
(*   - AsosScraper.scrape_product (same file),                             *)
(*   - the callers: the batch loop of fashion_scraper/main.py, the backoff *)
(*     wrapper scrape_with_retry of test_single_product.py and             *)
(*     BaseScraper.scrape_category of scrapers/base_scraper.py,            *)
(*   - the session lifecycle of main() (fashion_scraper/main.py),          *)
(*   - the retry loop of download_image (fashion_scraper/                  *)
(*     download_images.py).                                                *)
(* Strings are modelled as sequences of tokens; a substring test is a      *)
(* test on the tokens, so that URL checks are computed as the code does.   *)
(***************************************************************************)
EXTENDS Integers, Sequences, FiniteSets, TLC

\* ------------------------------------------------------------------ bounds
\* anchors on a category page fixture
MaxAnchors == 2
\* product links handed to a batch loop
MaxLinks == 2

\* values of --retries given to the download job
MaxRetriesArg == 4
\* image URLs in a product file
MaxImages == 2

\* ------------------------------------------------------- program constants
\* def download_image(url, save_path, max_retries: int = 3)
DefaultMaxRetries == 3
\* wait_time = (attempt + 1) * 5
BackoffStep == 5
\* stop_after_attempt(3)
StopAttempts == 3
\* wait_exponential(multiplier=1, min=4, max=10)
WaitMultiplier == 1
WaitMin == 4
WaitMax == 10
\* for i in range(5): window.scrollTo(0, (i + 1) * 1000)
ScrollCount == 5
ScrollStep == 1000
\* backoff.on_exception(..., max_tries=3)
MaxTries == 3
\* scrapers/asos_scraper.py: for i in range(3): window.scrollTo(...)
ScrapersScrollCount == 3
\* time.sleep(random.uniform(2, 4)) after each scroll: at least 2 s
ScrollPauseMin == 2
\* time.sleep(random.uniform(2, 5)) before a product page is loaded
ProductDelayMin == 2

VARIABLES
    \* --- link collection (get_product_links and its retry wrapper)
    lc_pc,            \* position inside the wrapped call
    fixture,          \* the category page the site serves (list of anchors)
    page_source,      \* markup of the page loaded by the current attempt
    current_url,      \* driver.current_url after navigation
    ready,            \* result of wait_for_page_load
    scrolls,          \* scroll offsets executed in the current attempt
    sel_idx,          \* index into link_selectors
    product_links,    \* the accumulator of the current attempt
    raised,           \* <<e>> when the attempt body raised e, else <<>>
    attempt_number,   \* tenacity retry_state.attempt_number
    attempt_errors,   \* errors raised by the attempts so far
    delays,           \* sleeps performed by the wrapper between attempts
    page_loads,       \* number of driver.get(category_url) calls
    lc_path,          \* which path produced the return: "dom" | "static"
    lc_return,        \* what the caller of get_product_links receives
    site,             \* "live": loads and lookups may fail at any step;
                      \* "flaky": the page always loads, lookups may fail;
                      \* "static": a fixture served and answered the same
                      \* way every time
    broken_selectors, \* static site: the selectors find_elements rejects
    swallowed,        \* an internal error was swallowed in the current attempt
    stale_elems,      \* elements whose href lookup raised (last selector)
    calls_made,       \* calls of get_product_links started so far
    first_result,     \* <<[ret, path]>> of the first call once a second began
    variant,          \* which AsosScraper runs: "fashion_scraper" | "scrapers"
    grids,            \* the product-grid containers of the fixture
    page_grids,       \* the containers in the DOM of the loaded page
    product_containers, \* scrapers: the containers the container rules found
    methods_run,      \* the extraction methods finished in the current attempt
    \* --- debug artifacts written to disk (both operations)
    artifacts,
    \* --- product extraction (scrape_product)
    sp_pc,            \* position inside scrape_product
    product_url,      \* the argument of the current call
    product_page,     \* the product page loaded by the current call
    sp_ready,         \* result of wait_for_page_load on the product page
    sp_signals,       \* <<[readiness, ajax]>>: what that wait observed
    product_data,     \* the record being assembled
    sp_raised,        \* <<e>> when the body raised e inside the inner try
    sp_return,        \* what the caller of scrape_product receives
    sp_steps,         \* history: the steps the current call has taken
    expansion,        \* how the "view all reviews" attempt of the call ended
    review_soup,      \* <<snapshot>> from which all_reviews was built
    \* --- callers of scrape_product
    caller,           \* "main" | "scrape_with_retry" | "scrape_category"
    batch_pc,         \* position of the caller
    links,            \* the product links the caller iterates over
    max_products,     \* the max_products argument of scrape_category
    idx,              \* loop index into links (1-based)
    tries,            \* backoff: tries made by scrape_with_retry
    calls,            \* history: the URLs scrape_product was invoked with
    outcomes,         \* history: how each of those calls ended
    stored,           \* records handed to the storage sink one by one
    scraped_products, \* records accumulated by the loop
    combined_save,    \* <<records>> once the final save was reached
    review_files,     \* the review_<id>_<n>.json files main() has written
    \* --- sessions sharing the debug-artifact directory
    now,              \* int(time.time()): the clock, in whole seconds
    workers,          \* per session: the operation it is in, seconds left to sleep
    debug_writes,     \* history: the open(debug_path, "w") calls, in order
    \* --- main() of fashion_scraper/main.py
    main_pc,          \* position inside main()
    category,         \* args.category
    scraper_bound,    \* 'scraper' in locals()
    driver,           \* the browser session: "none" | "open" | "quit"
    close_calls,      \* number of scraper.close() calls
    \* --- download_images.py
    dl_pc,            \* position inside main() / process_product_json
    retries_arg,      \* args.retries
    image_urls,       \* product_info.images of the product file
    image_idx,        \* enumerate(image_urls, 1)
    max_retries,      \* the parameter of the current download_image call
    attempt,          \* the loop variable of download_image
    dl_attempts,      \* history: per image, how each requests.get ended
    dl_results,       \* history: per image, what download_image returned
    dl_sleeps,        \* history: the back-off sleeps of the current call
    successful_downloads

lcVars == <<lc_pc, fixture, page_source, current_url, ready, scrolls, sel_idx,
            product_links, raised, attempt_number, attempt_errors, delays,
            page_loads, lc_path, lc_return, site, broken_selectors,
            swallowed, stale_elems, calls_made, first_result, variant, grids,
            page_grids, product_containers, methods_run>>
\* fixed by Init
lcEnv == <<site, broken_selectors, variant, grids>>
\* scrapers/asos_scraper.py: the container search
gridVars == <<page_grids, product_containers>>
\* history kept for the properties of the cascade
lcHist == <<swallowed, stale_elems, calls_made, first_result>>
revVars == <<expansion, review_soup>>
spVars == <<sp_pc, product_url, product_page, sp_ready, sp_signals, product_data,
            sp_raised, sp_return, sp_steps, revVars>>
batchVars == <<caller, batch_pc, links, max_products, idx, tries, calls, outcomes,
               stored, scraped_products, combined_save, review_files>>
sessionVars == <<now, workers, debug_writes>>
mainVars == <<main_pc, category, scraper_bound, driver, close_calls>>
dlVars == <<dl_pc, retries_arg, image_urls, image_idx, max_retries, attempt,
            dl_attempts, dl_results, dl_sleeps, successful_downloads>>
vars == <<lcVars, artifacts, spVars, batchVars, sessionVars, mainVars, dlVars>>

\* ---------------------------------------------------------------- strings
\* The substrings of interest that a token contains besides itself.
Subs(tok) ==
    {tok} \cup
    (CASE tok = "www.asos.com" -> {"asos.com"}
       [] tok \in {"productLink", "product-card", "product-tile",
                   "product-item", "product-link", "product-grid",
                   "product-list"} -> {"product"}
       [] OTHER -> {})

\* Python: needle in s
Contains(s, needle) == \E i \in DOMAIN s : needle \in Subs(s[i])

\* Python: s.startswith(prefix)
StartsWith(s, prefix) == Len(s) >= 1 /\ s[1] = prefix

\* Python: list(dict.fromkeys(s))
RECURSIVE Dedupe(_)
Dedupe(s) ==
    IF s = <<>> THEN <<>>
    ELSE LET front == Dedupe(SubSeq(s, 1, Len(s) - 1))
             last == s[Len(s)]
         IN IF \E i \in DOMAIN front : front[i] = last
            THEN front ELSE Append(front, last)

\* ------------------------------------------------------------------- URLs
SiteOrigin == <<"https://", "www.asos.com">>
category_url == SiteOrigin \o <<"/men", "/cat/", "?cid=", "6993">>
OffSiteUrl == <<"https://", "consent.example", "/blocked">>

\* What the browser returns for element.get_attribute('href'): the href
\* resolved against the origin of the current document; None is <<>>.
Resolve(raw, base) ==
    IF raw = <<>> THEN <<>>
    ELSE IF raw[1] = "https://" THEN raw
    ELSE IF raw[1] = "//" THEN <<"https://">> \o Tail(raw)
    ELSE SubSeq(base, 1, 2) \o raw

\* --------------------------------------------------------- category pages
Anchor(h, c, t, a) == [href |-> h, class |-> c, testid |-> t, autoid |-> a]

AnchorSamples ==
    { Anchor(SiteOrigin \o <<"/prd/", "1">>, <<>>, <<>>, <<>>),
      Anchor(SiteOrigin \o <<"/prd/", "2">>, <<"productLink">>, <<>>, <<>>),
      Anchor(<<"/prd/", "1">>, <<"product-tile">>, <<>>, <<>>),
      Anchor(<<"/nike", "/prd/", "3">>, <<>>, <<>>, <<>>),
      Anchor(<<"https://", "ads.example", "/go", "?u=", "asos.com", "/prd/", "1">>,
             <<>>, <<>>, <<>>),
      Anchor(SiteOrigin \o <<"/men", "/cat/">>, <<"product-card">>,
             <<"product-link">>, <<>>),
      Anchor(<<>>, <<"product-item">>, <<>>, <<"product-link">>) }

RECURSIVE SeqsUpTo(_, _)
SeqsUpTo(S, n) ==
    IF n = 0 THEN {<<>>}
    ELSE LET shorter == SeqsUpTo(S, n - 1)
         IN shorter \cup {Append(s, x) : s \in shorter, x \in S}

CategoryPages == SeqsUpTo(AnchorSamples, MaxAnchors)

\* ------------------------------------------------------------- exceptions
Exc(t, m) == [type |-> t, msg |-> m, cause |-> <<>>]
RedirectError == Exc("Exception", "Redirected to unexpected URL")
NoProductsError ==
    Exc("TimeoutException", "Could not find any product elements on the page")
PageLoadError == Exc("TimeoutException", "Timeout loading page")
ConnectionError == Exc("WebDriverException", "Failed to establish a new connection")
\* tenacity.RetryError wraps the last attempt
RetryError(e) == [type |-> "RetryError", msg |-> "RetryError", cause |-> <<e>>]

\* what driver.get raises on a category page / on a product page
CategoryGetErrors == {PageLoadError}
ProductGetErrors == {PageLoadError, ConnectionError}


\* ---------------------------------------------------------- link selectors
Attr(a, op, v) == [attr |-> a, op |-> op, val |-> v]

\* link_selectors of get_product_links, in declared order
link_selectors ==
    << {Attr("href", "*=", "/prd/")},
       {Attr("href", "*=", "asos.com"), Attr("href", "*=", "/prd/")},
       {Attr("class", "*=", "productLink")},
       {Attr("testid", "*=", "product")},
       {Attr("autoid", "*=", "product")},
       {Attr("href", "*=", "product")},
       {Attr("class", "*=", "product")},
       {Attr("testid", "=", "product-link")},
       {Attr("autoid", "=", "product-link")},
       {Attr("class", "*=", "product-card")},
       {Attr("class", "*=", "product-tile")},
       {Attr("class", "*=", "product-item")} >>

\* CSS attribute selectors test the attribute as written in the markup.
Matches(sel, anchor) ==
    \A c \in sel :
        IF c.op = "=" THEN anchor[c.attr] = <<c.val>>
        ELSE Contains(anchor[c.attr], c.val)

\* driver.find_elements(By.CSS_SELECTOR, selector): positions, page order
FindElements(page, sel) == {i \in DOMAIN page : Matches(sel, page[i])}

\* if href and 'asos.com' in href and '/prd/' in href
HrefAccepted(href) ==
    href # <<>> /\ Contains(href, "asos.com") /\ Contains(href, "/prd/")

\* The hrefs appended for one selector: every matched element, in page
\* order, whose get_attribute did not raise and whose href is accepted.
RECURSIVE CollectFrom(_, _, _, _)
CollectFrom(page, base, found, i) ==
    IF i > Len(page) THEN <<>>
    ELSE LET href == Resolve(page[i].href, base)
             rest == CollectFrom(page, base, found, i + 1)
         IN IF i \in found /\ HrefAccepted(href) THEN <<href>> \o rest ELSE rest

\* BeautifulSoup fallback over the static markup: raw href attributes.
RECURSIVE StaticLinks(_)
StaticLinks(page) ==
    IF page = <<>> THEN <<>>
    ELSE LET href == page[1].href
             rest == StaticLinks(Tail(page))
         IN IF href = <<>> THEN rest
            ELSE IF Contains(href, "asos.com") /\ Contains(href, "/prd/")
                 THEN <<href>> \o rest
            ELSE IF StartsWith(href, "/prd/")
                 THEN <<SiteOrigin \o href>> \o rest
            ELSE rest

\* What the fallback path returns (returned as gathered).
FallbackResult(found) == found

\* What the live-DOM path returns.
DomResult(found) == Dedupe(found)

\* ------------------------------------------------------- tenacity wrapper
RECURSIVE Pow2(_)
Pow2(n) == IF n <= 0 THEN 1 ELSE 2 * Pow2(n - 1)
Min(a, b) == IF a <= b THEN a ELSE b
Max(a, b) == IF a >= b THEN a ELSE b

\* wait_exponential(multiplier=1, min=4, max=10) after attempt n
WaitExponentialNoFloor(n) == Min(WaitMultiplier * Pow2(n - 1), WaitMax)
WaitExponential(n) ==
    Max(Max(0, WaitMin), Min(WaitMultiplier * Pow2(n - 1), WaitMax))

\* stop_after_attempt(3)
StopAfterTwo(n) == n >= StopAttempts - 1
StopAfterAttempt(n) == n >= StopAttempts

\* @retry without a retry= argument: every Exception is retried
ShouldRetryClassified(e) == e # RedirectError
ShouldRetryUnlessNoProducts(e) == e.type # "TimeoutException"
ShouldRetry(e) == e.type \in {"Exception", "TimeoutException", "WebDriverException"}

\* ----------------------------------------------------- get_product_links
\* The caller invokes the decorated function.
CallGetProductLinks ==
    /\ lc_pc = "call"
    /\ attempt_number' = 1
    /\ lc_pc' = "get"
    /\ UNCHANGED <<fixture, page_source, current_url, ready, scrolls, sel_idx,
                   product_links, raised, attempt_errors, delays, page_loads,
                   lc_path, lc_return>>
    /\ calls_made' = calls_made + 1
    /\ UNCHANGED <<lcEnv, swallowed, stale_elems, first_result, gridVars,
                   methods_run>>
    /\ UNCHANGED <<artifacts, spVars, batchVars, sessionVars, mainVars, dlVars>>

\* What the site may do on a load: a live site may serve the page before
\* its products are rendered, redirect off the domain or time out; a flaky
\* one only redirects; a static fixture is served the same way every time.
Renderings == IF site = "live" THEN BOOLEAN ELSE {TRUE}
LandingUrls == IF site # "static" THEN {category_url, OffSiteUrl} ELSE {category_url}
LoadErrors == IF site = "live" THEN CategoryGetErrors ELSE {}

\* product_links = [] at the start of every attempt (a local of the body)
KeptProductLinks(old) == old
NewProductLinks(old) == <<>>

\* product_links = []; self.driver.get(category_url)
LoadCategoryPage ==
    /\ lc_pc = "get"
    /\ product_links' = NewProductLinks(product_links)
    /\ page_loads' = page_loads + 1
    /\ scrolls' = <<>>
    /\ sel_idx' = 1
    /\ swallowed' = FALSE
    /\ stale_elems' = {}
    /\ product_containers' = <<>>
    /\ methods_run' = <<>>
    /\ \/ \E rendered \in Renderings, u \in LandingUrls :
            /\ page_source' = IF rendered THEN fixture ELSE <<>>
            /\ page_grids' = IF rendered THEN grids ELSE <<>>
            /\ current_url' = u
            /\ raised' = <<>>
            /\ lc_pc' = "check"
       \/ \E e \in LoadErrors :
            /\ raised' = <<e>>
            /\ lc_pc' = "failed"
            /\ UNCHANGED <<page_source, page_grids, current_url>>
    /\ UNCHANGED <<fixture, ready, attempt_number, attempt_errors, delays,
                   lc_path, lc_return>>
    /\ UNCHANGED <<lcEnv, calls_made, first_result>>
    /\ UNCHANGED <<artifacts, spVars, batchVars, sessionVars, mainVars, dlVars>>

\* "asos.com" not in self.driver.current_url
OffDomainIgnored(url) == FALSE
OffDomain(url) == ~Contains(url, "asos.com")

\* if "asos.com" not in self.driver.current_url: raise
CheckCurrentUrl ==
    /\ lc_pc = "check"
    /\ IF OffDomain(current_url)
       THEN raised' = <<RedirectError>> /\ lc_pc' = "failed"
       ELSE raised' = raised /\ lc_pc' = "wait"
    /\ UNCHANGED <<fixture, page_source, current_url, ready, scrolls, sel_idx,
                   product_links, attempt_number, attempt_errors, delays,
                   page_loads, lc_path, lc_return>>
    /\ UNCHANGED <<lcEnv, lcHist, gridVars, methods_run>>
    /\ UNCHANGED <<artifacts, spVars, batchVars, sessionVars, mainVars, dlVars>>

\* What the two WebDriverWait polls of wait_for_page_load can observe:
\* the condition, the timeout, or an error of execute_script (jQuery is
\* not defined on every page). The AJAX poll runs only after readiness.
ReadinessSignals == {"complete", "timeout", "error"}
AjaxSignals(readiness) ==
    IF readiness = "complete" THEN {"idle", "timeout", "error"} ELSE {"skipped"}

\* wait_for_page_load of fashion_scraper: the AJAX poll has its own bare
\* except ("continuing anyway"); everything else ends in `return False`.
WaitAjaxRequired(readiness, ajax) ==
    [kind |-> "returned", value |-> readiness = "complete" /\ ajax = "idle"]
wait_for_page_load(readiness, ajax) ==
    [kind |-> "returned", value |-> readiness = "complete"]

\* if not self.wait_for_page_load(): log and continue
WaitCategoryPage ==
    /\ variant = "fashion_scraper"
    /\ lc_pc = "wait"
    /\ \E rs \in ReadinessSignals : \E jq \in AjaxSignals(rs) :
          ready' = wait_for_page_load(rs, jq).value
    /\ lc_pc' = "scroll"
    /\ UNCHANGED <<fixture, page_source, current_url, scrolls, sel_idx,
                   product_links, raised, attempt_number, attempt_errors,
                   delays, page_loads, lc_path, lc_return>>
    /\ UNCHANGED <<lcEnv, lcHist, gridVars, methods_run>>
    /\ UNCHANGED <<artifacts, spVars, batchVars, sessionVars, mainVars, dlVars>>

\* for i in range(5): window.scrollTo(0, (i + 1) * 1000)
Scroll ==
    /\ lc_pc = "scroll"
    /\ scrolls' = Append(scrolls, (Len(scrolls) + 1) * ScrollStep)
    /\ lc_pc' = IF Len(scrolls) + 1 = ScrollCount THEN "select" ELSE "scroll"
    /\ UNCHANGED <<fixture, page_source, current_url, ready, sel_idx,
                   product_links, raised, attempt_number, attempt_errors,
                   delays, page_loads, lc_path, lc_return>>
    /\ UNCHANGED <<lcEnv, lcHist, gridVars, methods_run>>
    /\ UNCHANGED <<artifacts, spVars, batchVars, sessionVars, mainVars, dlVars>>

\* Which internal errors the browser may raise: on a live site any
\* find_elements call and any element's get_attribute may raise; on a static
\* fixture exactly the selectors the driver rejects raise, every time.
SelectorMayRaise(k) == site # "static" \/ k \in broken_selectors
SelectorMayAnswer(k) == site # "static" \/ k \notin broken_selectors
StaleChoices(matched) == IF site # "static" THEN SUBSET matched ELSE {{}}

\* if links: ... if product_links: break
BreakOnAnyMatch(links_found, gathered) == links_found
BreakCascade(links_found, gathered) == links_found /\ gathered # <<>>

\* except Exception as e: log; continue -- where the loop goes on
SelectorErrorEscapes(next) ==
    [pc |-> "failed", raised |-> <<Exc("WebDriverException", "invalid selector")>>]
OnSelectorError(next) == [pc |-> next, raised |-> <<>>]

\* An extraction method that ran to its end, with the links it gathered.
MethodRun(m, gathered) == [method |-> m, yield |-> gathered]

\* One iteration of `for selector in link_selectors`.
TrySelector ==
    /\ lc_pc = "select"
    /\ LET matched == FindElements(page_source, link_selectors[sel_idx])
           next == IF sel_idx = Len(link_selectors) THEN "collected" ELSE "select"
       IN \/ \* find_elements raised: except ...: continue
             /\ SelectorMayRaise(sel_idx)
             /\ product_links' = product_links
             /\ lc_pc' = OnSelectorError(next).pc
             /\ raised' = OnSelectorError(next).raised
             /\ swallowed' = TRUE
             /\ stale_elems' = {}
          \/ \* some elements' get_attribute raised: skipped one by one
             /\ SelectorMayAnswer(sel_idx)
             /\ \E stale \in StaleChoices(matched) :
                  LET got == CollectFrom(page_source, current_url, matched \ stale, 1)
                  IN /\ product_links' = product_links \o got
                     /\ lc_pc' = IF BreakCascade(matched # {}, product_links \o got)
                                 THEN "collected" ELSE next
                     /\ swallowed' = (swallowed \/ stale # {})
                     /\ stale_elems' = stale
             /\ raised' = raised
    /\ sel_idx' = IF lc_pc' = "select" THEN sel_idx + 1 ELSE sel_idx
    /\ methods_run' = IF lc_pc' = "collected"
                       THEN Append(methods_run, MethodRun("global", product_links'))
                       ELSE methods_run
    /\ UNCHANGED <<fixture, page_source, current_url, ready, scrolls,
                   attempt_number, attempt_errors, delays, page_loads, lc_path,
                   lc_return>>
    /\ UNCHANGED <<lcEnv, calls_made, first_result, gridVars>>
    /\ UNCHANGED <<artifacts, spVars, batchVars, sessionVars, mainVars, dlVars>>

\* After the selector loop: debug dump and static fallback when nothing was
\* gathered, otherwise de-duplicate and return.
FinishAttempt ==
    /\ variant = "fashion_scraper"
    /\ lc_pc = "collected"
    /\ IF product_links = <<>>
       THEN LET found == StaticLinks(page_source)
            IN /\ artifacts' = Append(artifacts,
                     [kind |-> "asos_debug", markup |-> page_source,
                      call |-> attempt_number])
               /\ product_links' = found
               /\ methods_run' = Append(methods_run, MethodRun("static", found))
               /\ IF found # <<>>
                  THEN /\ lc_return' = [kind |-> "returned",
                                        value |-> FallbackResult(found)]
                       /\ lc_path' = "static"
                       /\ lc_pc' = "done"
                       /\ raised' = raised
                  ELSE /\ raised' = <<NoProductsError>>
                       /\ lc_pc' = "failed"
                       /\ UNCHANGED <<lc_return, lc_path>>
       ELSE /\ lc_return' = [kind |-> "returned", value |-> DomResult(product_links)]
            /\ product_links' = DomResult(product_links)
            /\ lc_path' = "dom"
            /\ lc_pc' = "done"
            /\ UNCHANGED <<artifacts, raised, methods_run>>
    /\ UNCHANGED <<fixture, page_source, current_url, ready, scrolls, sel_idx,
                   attempt_number, attempt_errors, delays, page_loads>>
    /\ UNCHANGED <<lcEnv, lcHist, gridVars>>
    /\ UNCHANGED <<spVars, batchVars, sessionVars, mainVars, dlVars>>

\* Where a retry enters the function: the decorator calls it again, so the
\* body runs from its first statement.
RetryResumesAtSelectors == "select"
RetryEntry == "get"

\* except Exception: log; raise -- and the retry decorator's decision.
RetryDecision ==
    /\ lc_pc = "failed"
    /\ LET e == raised[1] IN
       /\ attempt_errors' = Append(attempt_errors, e)
       /\ IF ~ShouldRetry(e)
          THEN /\ lc_return' = [kind |-> "raised", value |-> <<e>>]
               /\ lc_pc' = "done"
               /\ UNCHANGED <<attempt_number, delays>>
          ELSE IF StopAfterAttempt(attempt_number)
          THEN /\ lc_return' = [kind |-> "raised", value |-> <<RetryError(e)>>]
               /\ lc_pc' = "done"
               /\ UNCHANGED <<attempt_number, delays>>
          ELSE /\ delays' = Append(delays, WaitExponential(attempt_number))
               /\ attempt_number' = attempt_number + 1
               /\ lc_pc' = RetryEntry
               /\ UNCHANGED lc_return
    /\ raised' = <<>>
    /\ UNCHANGED <<fixture, page_source, current_url, ready, scrolls, sel_idx,
                   product_links, page_loads, lc_path>>
    /\ UNCHANGED <<lcEnv, lcHist, gridVars, methods_run>>
    /\ UNCHANGED <<artifacts, spVars, batchVars, sessionVars, mainVars, dlVars>>

\* ------------------------------------------------------------ idle values
NoReturn == [kind |-> "pending", value |-> <<>>]

InitLinkVars ==
    /\ page_source = <<>>
    /\ current_url = <<>>
    /\ ready = FALSE
    /\ scrolls = <<>>
    /\ sel_idx = 1
    /\ product_links = <<>>
    /\ raised = <<>>
    /\ attempt_number = 0
    /\ attempt_errors = <<>>
    /\ delays = <<>>
    /\ page_loads = 0
    /\ lc_path = "none"
    /\ lc_return = NoReturn
    /\ swallowed = FALSE
    /\ stale_elems = {}
    /\ calls_made = 0
    /\ first_result = <<>>
    /\ page_grids = <<>>
    /\ product_containers = <<>>
    /\ methods_run = <<>>

InitProductVars ==
    /\ sp_pc = "idle"
    /\ product_url = <<>>
    /\ product_page = <<>>
    /\ sp_ready = FALSE
    /\ sp_signals = <<>>
    /\ product_data = <<>>
    /\ sp_raised = <<>>
    /\ sp_return = NoReturn
    /\ sp_steps = <<>>
    /\ expansion = "pending"
    /\ review_soup = <<>>

InitBatchVars ==
    /\ batch_pc = "idle"
    /\ links = <<>>
    /\ max_products = 0
    /\ idx = 0
    /\ tries = 0
    /\ calls = <<>>
    /\ outcomes = <<>>
    /\ stored = <<>>
    /\ scraped_products = <<>>
    /\ combined_save = <<>>
    /\ review_files = <<>>

\* no session has started
Sessions == {"session_a", "session_b"}
Idle == [op |-> "idle", sleep_left |-> 0]
InitSessionVars ==
    /\ now = 0
    /\ workers = [s \in Sessions |-> Idle]
    /\ debug_writes = <<>>

\* main() has not been entered
InitMainVars ==
    /\ main_pc = "idle"
    /\ category = <<>>
    /\ scraper_bound = FALSE
    /\ driver = "none"
    /\ close_calls = 0

\* the download job has not been entered
InitDlVars ==
    /\ dl_pc = "idle"
    /\ retries_arg = 0
    /\ image_urls = <<>>
    /\ image_idx = 0
    /\ max_retries = 0
    /\ attempt = 0
    /\ dl_attempts = <<>>
    /\ dl_results = <<>>
    /\ dl_sleeps = <<>>
    /\ successful_downloads = 0

\* ---------------------------------- specification of the link collection
InitLinks ==
    /\ lc_pc = "call"
    /\ fixture \in CategoryPages
    /\ site = "live"
    /\ broken_selectors = {}
    /\ variant = "fashion_scraper"
    /\ grids = <<>>
    /\ InitLinkVars
    /\ artifacts = <<>>
    /\ InitProductVars
    /\ caller = "main"
    /\ InitBatchVars
    /\ InitSessionVars
    /\ InitMainVars
    /\ InitDlVars

NextLinks ==
    \/ CallGetProductLinks
    \/ LoadCategoryPage
    \/ CheckCurrentUrl
    \/ WaitCategoryPage
    \/ Scroll
    \/ TrySelector
    \/ FinishAttempt
    \/ RetryDecision

SpecLinks == InitLinks /\ [][NextLinks]_vars

\* ------------------------- a static fixture, collected twice in a session
\* The selectors a driver rejects on a fixture (it rejects them every time).
BrokenSamples == {{}, {1}, {1, 2}, DOMAIN link_selectors}

\* The caller has its result and calls get_product_links(category_url)
\* again on the same scraper object: the retry state of the wrapper is new,
\* the driver and whatever the body left behind are the same.
Recollect ==
    /\ lc_pc = "done"
    /\ calls_made = 1
    /\ first_result' = <<[ret |-> lc_return, path |-> lc_path]>>
    /\ lc_return' = NoReturn
    /\ lc_path' = "none"
    /\ attempt_number' = 0
    /\ attempt_errors' = <<>>
    /\ delays' = <<>>
    /\ page_loads' = 0
    /\ lc_pc' = "call"
    /\ UNCHANGED <<fixture, page_source, current_url, ready, scrolls, sel_idx,
                   product_links, raised, swallowed, stale_elems, calls_made>>
    /\ UNCHANGED <<lcEnv, gridVars, methods_run>>
    /\ UNCHANGED <<artifacts, spVars, batchVars, sessionVars, mainVars, dlVars>>

InitRecollect ==
    /\ lc_pc = "call"
    /\ fixture \in CategoryPages
    /\ site = "static"
    /\ broken_selectors \in BrokenSamples
    /\ variant = "fashion_scraper"
    /\ grids = <<>>
    /\ InitLinkVars
    /\ artifacts = <<>>
    /\ InitProductVars
    /\ caller = "main"
    /\ InitBatchVars
    /\ InitSessionVars
    /\ InitMainVars
    /\ InitDlVars

NextRecollect ==
    \/ NextLinks
    \/ Recollect

SpecRecollect == InitRecollect /\ [][NextRecollect]_vars

\* ============================ scrapers/asos_scraper.py: get_product_links
\* The older AsosScraper (used by main_asos.py through scrape_category)
\* shares the decorator, the page load and the URL check with the one above
\* (lines 108-125) and then searches product containers first.

\* wait_for_page_load of scrapers/asos_scraper.py: one try around both polls
ScrapersWaitForPageLoad(readiness, ajax) ==
    [kind |-> "returned", value |-> readiness = "complete" /\ ajax = "idle"]

\* A product-grid div: its attributes, the anchors inside it (positions on
\* the page) and those of them nested in a [class*="product"] element.
Grid(t, a, c, inside, in_cards) ==
    [testid |-> t, autoid |-> a, class |-> c, anchors |-> inside, cards |-> in_cards]

\* container_selectors, in declared order
container_selectors ==
    << {Attr("testid", "=", "product-grid")},
       {Attr("autoid", "=", "product-grid")},
       {Attr("class", "*=", "productGrid")},
       {Attr("class", "*=", "product-grid")},
       {Attr("class", "*=", "product-list")},
       {Attr("class", "*=", "productContainer")},
       {Attr("class", "*=", "productWrapper")},
       {Attr("class", "*=", "product-grid")},
       {Attr("class", "*=", "product-list")},
       {Attr("class", "*=", "product-container")},
       {Attr("class", "*=", "product-wrapper")},
       {Attr("class", "*=", "product-grid-container")},
       {Attr("class", "*=", "product-list-container")},
       {Attr("class", "*=", "product-grid-wrapper")},
       {Attr("class", "*=", "product-list-wrapper")} >>

\* link_selectors of this variant: the first five of the list above
scrapers_link_selectors == SubSeq(link_selectors, 1, 5)

\* The container layouts a fixture is tried with.
GridLayouts(page) ==
    LET D == DOMAIN page
    IN { <<>>,
         << Grid(<<"product-grid">>, <<>>, <<>>, D, D) >>,
         << Grid(<<>>, <<>>, <<"product-list">>, {1} \cap D, {}) >>,
         << Grid(<<"product-grid">>, <<>>, <<>>, {1} \cap D, {}),
            Grid(<<>>, <<>>, <<"product-list">>, {2} \cap D, {2} \cap D) >> }

\* The elements of a list.
Range(s) == {s[i] : i \in DOMAIN s}

\* The members of a set of positions, in page order.
RECURSIVE Ascending(_)
Ascending(S) ==
    IF S = {} THEN <<>>
    ELSE LET m == CHOOSE x \in S : \A y \in S : x <= y
         IN <<m>> \o Ascending(S \ {m})

\* The container rules that match a container of the loaded page.
MatchingRules ==
    {k \in DOMAIN container_selectors :
        \E g \in DOMAIN page_grids : Matches(container_selectors[k], page_grids[g])}

\* product_containers after the loops of lines 153-170: the containers of
\* the first rule whose lookup succeeded.
ContainersFound(failing) ==
    LET usable == MatchingRules \ failing
    IN IF usable = {} THEN <<>>
       ELSE LET k == CHOOSE x \in usable : \A y \in usable : x <= y
            IN Ascending({g \in DOMAIN page_grids :
                             Matches(container_selectors[k], page_grids[g])})

\* if not self.wait_for_page_load(): log and continue
ScrapersWaitCategoryPage ==
    /\ variant = "scrapers"
    /\ lc_pc = "wait"
    /\ \E rs \in ReadinessSignals : \E jq \in AjaxSignals(rs) :
          ready' = ScrapersWaitForPageLoad(rs, jq).value
    /\ lc_pc' = "containers"
    /\ UNCHANGED <<fixture, page_source, current_url, scrolls, sel_idx,
                   product_links, raised, attempt_number, attempt_errors,
                   delays, page_loads, lc_path, lc_return>>
    /\ UNCHANGED <<lcEnv, lcHist, gridVars, methods_run>>
    /\ UNCHANGED <<artifacts, spVars, batchVars, sessionVars, mainVars, dlVars>>

\* for timeout in [10, 20, 30]: for selector in container_selectors: ...
\* Unless the site is a static fixture the lookup of any rule may raise and
\* is skipped.
ScrapersFindContainers ==
    /\ lc_pc = "containers"
    /\ \E failing \in (IF site # "static" THEN SUBSET MatchingRules ELSE {{}}) :
          /\ product_containers' = ContainersFound(failing)
          /\ swallowed' = (swallowed \/ failing # {})
    /\ lc_pc' = "scrapers_scroll"
    /\ UNCHANGED <<fixture, page_source, current_url, ready, scrolls, sel_idx,
                   product_links, raised, attempt_number, attempt_errors,
                   delays, page_loads, lc_path, lc_return>>
    /\ UNCHANGED <<lcEnv, stale_elems, calls_made, first_result, page_grids,
                   methods_run>>
    /\ UNCHANGED <<artifacts, spVars, batchVars, sessionVars, mainVars, dlVars>>

\* for i in range(3): window.scrollTo(0, (i + 1) * 1000)
ScrapersScroll ==
    /\ lc_pc = "scrapers_scroll"
    /\ scrolls' = Append(scrolls, (Len(scrolls) + 1) * ScrollStep)
    /\ lc_pc' = IF Len(scrolls) + 1 = ScrapersScrollCount
                THEN "container_links" ELSE "scrapers_scroll"
    /\ UNCHANGED <<fixture, page_source, current_url, ready, sel_idx,
                   product_links, raised, attempt_number, attempt_errors,
                   delays, page_loads, lc_path, lc_return>>
    /\ UNCHANGED <<lcEnv, lcHist, gridVars, methods_run>>
    /\ UNCHANGED <<artifacts, spVars, batchVars, sessionVars, mainVars, dlVars>>

\* The accepted hrefs of one container (lines 184-205): all its anchors,
\* then its anchors with /prd/ in the href, then the anchors nested in its
\* product cards; an element whose href lookup raises is skipped each time.
ContainerLinks(g, stale) ==
    LET inside == g.anchors \ stale
    IN CollectFrom(page_source, current_url, inside, 1)
       \o CollectFrom(page_source, current_url,
              {i \in inside : Contains(page_source[i].href, "/prd/")}, 1)
       \o CollectFrom(page_source, current_url, g.cards \ stale, 1)

\* for container in product_containers: a container whose lookups raise
\* contributes nothing (except at line 206).
RECURSIVE ContainersLinks(_, _, _)
ContainersLinks(found, failed, stale) ==
    IF found = <<>> THEN <<>>
    ELSE (IF found[1] \in failed THEN <<>>
          ELSE ContainerLinks(page_grids[found[1]], stale))
         \o ContainersLinks(Tail(found), failed, stale)

\* if not product_links: (line 210)
GlobalSearchAlways(gathered) == TRUE
GlobalSearchNeeded(gathered) == gathered = <<>>

\* if product_containers: ... (lines 178-207) and the test of line 210
ScrapersSearchContainers ==
    /\ lc_pc = "container_links"
    /\ IF product_containers = <<>>
       THEN /\ product_links' = product_links
            /\ UNCHANGED <<swallowed, stale_elems, methods_run>>
       ELSE \E failed \in (IF site # "static" THEN SUBSET Range(product_containers)
                            ELSE {{}}) :
            \E stale \in StaleChoices(
                    UNION {page_grids[g].anchors : g \in Range(product_containers)}) :
               /\ product_links' =
                     product_links \o ContainersLinks(product_containers, failed, stale)
               /\ swallowed' = (swallowed \/ failed # {} \/ stale # {})
               /\ stale_elems' = stale
               /\ methods_run' =
                     Append(methods_run, MethodRun("container", product_links'))
    /\ lc_pc' = IF GlobalSearchNeeded(product_links')
                THEN "scrapers_select" ELSE "collected"
    /\ sel_idx' = 1
    /\ UNCHANGED <<fixture, page_source, current_url, ready, scrolls, raised,
                   attempt_number, attempt_errors, delays, page_loads, lc_path,
                   lc_return>>
    /\ UNCHANGED <<lcEnv, calls_made, first_result, gridVars>>
    /\ UNCHANGED <<artifacts, spVars, batchVars, sessionVars, mainVars, dlVars>>

\* One iteration of `for selector in link_selectors` (lines 220-239).
ScrapersTrySelector ==
    /\ lc_pc = "scrapers_select"
    /\ LET matched == FindElements(page_source, scrapers_link_selectors[sel_idx])
           next == IF sel_idx = Len(scrapers_link_selectors)
                   THEN "collected" ELSE "scrapers_select"
       IN \/ /\ SelectorMayRaise(sel_idx)
             /\ product_links' = product_links
             /\ lc_pc' = OnSelectorError(next).pc
             /\ raised' = OnSelectorError(next).raised
             /\ swallowed' = TRUE
             /\ stale_elems' = {}
          \/ /\ SelectorMayAnswer(sel_idx)
             /\ \E stale \in StaleChoices(matched) :
                  LET got == CollectFrom(page_source, current_url, matched \ stale, 1)
                  IN /\ product_links' = product_links \o got
                     /\ lc_pc' = IF BreakCascade(matched # {}, product_links \o got)
                                 THEN "collected" ELSE next
                     /\ swallowed' = (swallowed \/ stale # {})
                     /\ stale_elems' = stale
             /\ raised' = raised
    /\ sel_idx' = IF lc_pc' = "scrapers_select" THEN sel_idx + 1 ELSE sel_idx
    /\ methods_run' = IF lc_pc' = "collected"
                       THEN Append(methods_run, MethodRun("global", product_links'))
                       ELSE methods_run
    /\ UNCHANGED <<fixture, page_source, current_url, ready, scrolls,
                   attempt_number, attempt_errors, delays, page_loads, lc_path,
                   lc_return>>
    /\ UNCHANGED <<lcEnv, calls_made, first_result, gridVars>>
    /\ UNCHANGED <<artifacts, spVars, batchVars, sessionVars, mainVars, dlVars>>

\* Lines 241-281: debug dump and static fallback when nothing was gathered,
\* otherwise the gathered list is returned as it is.
ScrapersFinishAttempt ==
    /\ variant = "scrapers"
    /\ lc_pc = "collected"
    /\ IF product_links = <<>>
       THEN LET found == StaticLinks(page_source)
            IN /\ artifacts' = Append(artifacts,
                     [kind |-> "asos_debug", markup |-> page_source,
                      call |-> attempt_number])
               /\ product_links' = found
               /\ methods_run' = Append(methods_run, MethodRun("static", found))
               /\ IF found # <<>>
                  THEN /\ lc_return' = [kind |-> "returned", value |-> found]
                       /\ lc_path' = "static"
                       /\ lc_pc' = "done"
                       /\ raised' = raised
                  ELSE /\ raised' = <<NoProductsError>>
                       /\ lc_pc' = "failed"
                       /\ UNCHANGED <<lc_return, lc_path>>
       ELSE /\ lc_return' = [kind |-> "returned", value |-> product_links]
            /\ lc_path' = IF methods_run[Len(methods_run)].method = "container"
                          THEN "container" ELSE "dom"
            /\ lc_pc' = "done"
            /\ UNCHANGED <<artifacts, raised, product_links, methods_run>>
    /\ UNCHANGED <<fixture, page_source, current_url, ready, scrolls, sel_idx,
                   attempt_number, attempt_errors, delays, page_loads>>
    /\ UNCHANGED <<lcEnv, lcHist, gridVars>>
    /\ UNCHANGED <<spVars, batchVars, sessionVars, mainVars, dlVars>>

InitScrapers ==
    /\ lc_pc = "call"
    /\ fixture \in CategoryPages
    /\ site = "flaky"
    /\ broken_selectors = {}
    /\ variant = "scrapers"
    /\ grids \in GridLayouts(fixture)
    /\ InitLinkVars
    /\ artifacts = <<>>
    /\ InitProductVars
    /\ caller = "scrape_category"
    /\ InitBatchVars
    /\ InitSessionVars
    /\ InitMainVars
    /\ InitDlVars

NextScrapers ==
    \/ CallGetProductLinks
    \/ LoadCategoryPage
    \/ CheckCurrentUrl
    \/ ScrapersWaitCategoryPage
    \/ ScrapersFindContainers
    \/ ScrapersScroll
    \/ ScrapersSearchContainers
    \/ ScrapersTrySelector
    \/ ScrapersFinishAttempt
    \/ RetryDecision

SpecScrapers == InitScrapers /\ [][NextScrapers]_vars


\* ============================================================ product pages
\* str.lower() on the tokens that carry upper-case letters
Lower(tok) ==
    CASE tok = "Verify You Are Human" -> "verify you are human"
      [] tok = "Unusual Traffic" -> "unusual traffic"
      [] OTHER -> tok
LowerSeq(s) == [i \in DOMAIN s |-> Lower(s[i])]

\* The inner div.qKPxB of a rating bar; has_style = FALSE: no style attribute.
Bar(has_style, style) == [has_style |-> has_style, style |-> style]
GoodBar == Bar(TRUE, <<"width", ":", "80", "%", ";">>)
NoStyleBar == Bar(FALSE, <<>>)
NonNumericBar == Bar(TRUE, <<"width", ":", "auto", ";">>)
NoColonBar == Bar(TRUE, <<"width", "80", "%">>)

\* A carousel item; href = <<>>: the anchor has no href attribute.
Item(href) == [href |-> href]

\* An element of a review section that may be missing: <<>> or <<content>>.
Review(rating, date, status, title, button) ==
    [rating |-> rating, date |-> date, status |-> status, title |-> title,
     button |-> button]
FullReview ==
    Review(<< <<"5", "Stars">> >>, << <<"01/05/2024">> >>,
           << <<"Verified purchaser">> >>, << <<"Great">> >>,
           << [aria |-> <<"Fits well", "... Read More">>,
               text |-> <<"Fits", "Read More">>] >>)
TitleOnlyReview == Review(<<>>, <<>>, <<>>, << <<"Okay">> >>, <<>>)
UnratedReview ==
    Review(<< <<"No", "rating">> >>, << <<"02/05/2024">> >>, << <<"Guest">> >>,
           << <<"Fine">> >>, << [aria |-> <<>>, text |-> <<"Good", "Read More">>] >>)
EmptyReview == Review(<<>>, <<>>, <<>>, <<>>, <<>>)

\* div[data-testid="reviewsSection"]: its overall-rating and total-reviews
\* elements, the "view all" button, and the review sections the document
\* shows before and after the list is expanded.
ReviewsBlock(overall, total, view_all, collapsed, expanded) ==
    [section |-> TRUE, overall |-> overall, total |-> total,
     view_all |-> view_all, collapsed |-> collapsed, expanded |-> expanded]
NoReviews ==
    [section |-> FALSE, overall |-> <<>>, total |-> <<>>, view_all |-> FALSE,
     collapsed |-> <<>>, expanded |-> <<>>]

BasePage ==
    [ reviews |-> NoReviews,
      text |-> <<"Free delivery">>,
      price |-> <<"£", "85", ".", "00">>,
      name |-> <<"Test Product">>,
      brand |-> <<"Test Brand">>,
      reviews_section |-> TRUE,
      rating_bars |-> <<GoodBar, GoodBar>>,
      might_like |-> <<Item(<<"/prd/", "2">>)>>,
      also_bought |-> <<Item(<<"/prd/", "3">>)>>,
      description |-> <<"Test Description">> ]

ProductPageSamples ==
    { BasePage,
      [BasePage EXCEPT !.price = <<"£", "1", ",", "234", ".", "50">>],
      [BasePage EXCEPT !.price = <<"See", "options">>],
      [BasePage EXCEPT !.price = <<"From", "£", "85", ".", "00">>],
      [BasePage EXCEPT !.price = <<>>],
      [BasePage EXCEPT !.price = <<>>, !.name = <<>>, !.brand = <<>>],
      [BasePage EXCEPT !.text = <<"Please", "verify you are human">>, !.price = <<>>],
      [BasePage EXCEPT !.text = <<"Unusual Traffic", "detected">>],
      [BasePage EXCEPT !.rating_bars = <<NoStyleBar, GoodBar>>],
      [BasePage EXCEPT !.rating_bars = <<GoodBar, NonNumericBar>>],
      [BasePage EXCEPT !.rating_bars = <<NoColonBar, GoodBar>>],
      [BasePage EXCEPT !.might_like = <<Item(<<>>)>>],
      [BasePage EXCEPT !.reviews =
          ReviewsBlock(<< <<"4.5">> >>, << <<"(", "4", "Reviews", ")">> >>, TRUE,
                       <<FullReview>>, <<FullReview, TitleOnlyReview>>)],
      [BasePage EXCEPT !.reviews =
          ReviewsBlock(<< <<"New">> >>, << <<"(", ")">> >>, TRUE,
                       <<UnratedReview, EmptyReview>>,
                       <<UnratedReview, EmptyReview, FullReview>>)],
      [BasePage EXCEPT !.reviews_section = FALSE, !.rating_bars = <<>>,
                       !.might_like = <<>>, !.also_bought = <<>>,
                       !.description = <<>>] }

NoPage == <<>>

BotError == Exc("Exception", "Bot detection triggered")
NoDetailsError == Exc("Exception", "Could not find any product details")

\* ------------------------------------------------------------ dict helpers
\* product_data[key] = value
Put(d, key, value) == (key :> value) @@ d
\* d.get(key, default)
Get(d, key, default) == IF key \in DOMAIN d THEN d[key] ELSE default
None == <<>>

\* --------------------------------------------------------------- parsing
DigitTokens == {"00", "1", "50", "80", "85", "234"}

\* price_text.replace('£', '').replace(',', '')
CleanPrice(text) == SelectSeq(text, LAMBDA t : t \notin {"£", ","})

\* float(price_text) succeeds: digits, optionally a point and digits
IsFloat(t) ==
    /\ t # <<>>
    /\ \A i \in DOMAIN t : t[i] \in DigitTokens \cup {"."}
    /\ Cardinality({i \in DOMAIN t : t[i] = "."}) <= 1
    /\ \E i \in DOMAIN t : t[i] \in DigitTokens

\* try: float(...) except ValueError: keep the text
ParsePrice(text) ==
    LET cleaned == CleanPrice(text)
    IN IF IsFloat(cleaned) THEN [kind |-> "float", value |-> cleaned]
       ELSE [kind |-> "str", value |-> cleaned]

\* style.split(':')
RECURSIVE Split(_, _)
Split(s, sep) ==
    IF \A i \in DOMAIN s : s[i] # sep THEN <<s>>
    ELSE LET k == CHOOSE i \in DOMAIN s :
                      s[i] = sep /\ \A j \in 1..(i - 1) : s[j] # sep
         IN <<SubSeq(s, 1, k - 1)>> \o Split(SubSeq(s, k + 1, Len(s)), sep)

\* segment.strip('%;')
RECURSIVE Strip(_, _)
Strip(s, chars) ==
    IF s = <<>> THEN s
    ELSE IF s[1] \in chars THEN Strip(Tail(s), chars)
    ELSE IF s[Len(s)] \in chars THEN Strip(SubSeq(s, 1, Len(s) - 1), chars)
    ELSE s

\* The error, if any, of int(bar['style'].split(':')[1].strip('%;'))
BarError(bar) ==
    IF ~bar.has_style THEN "KeyError"
    ELSE LET parts == Split(bar.style, ":")
         IN IF Len(parts) < 2 THEN "IndexError"
            ELSE LET digits == Strip(parts[2], {"%", ";"})
                 IN IF Len(digits) = 1 /\ digits[1] \in DigitTokens
                    THEN "none" ELSE "ValueError"
BarValue(bar) == Strip(Split(bar.style, ":")[2], {"%", ";"})

\* except (ValueError, KeyError):
BarErrorCaught(err) == err \in {"ValueError", "KeyError"}

\* the two bot-challenge phrases, tested on page_source.lower()
BotDetectedCaseSensitive(page) ==
    Contains(page.text, "unusual traffic") \/ Contains(page.text, "verify you are human")
BotDetected(page) ==
    \/ Contains(LowerSeq(page.text), "unusual traffic")
    \/ Contains(LowerSeq(page.text), "verify you are human")

\* if 'price' in product_data: return product_data
PriceGateOpen(d) == TRUE
PriceGate(d) == "price" \in DOMAIN d

\* ========================================================= scrape_product
\* ratings_data after the fit and quality bars (lines 338-356)
RateBar(d, key, bar) ==
    Put(d, key, IF BarError(bar) = "none" THEN BarValue(bar) ELSE None)
RatingsData(page) ==
    IF page.reviews_section /\ Len(page.rating_bars) >= 2
    THEN RateBar(RateBar(<<>>, "fit_rating", page.rating_bars[1]),
                 "quality_rating", page.rating_bars[2])
    ELSE <<>>
\* an error of a bar that the except clause of the bar does not catch
RatingsRaise(page) ==
    /\ page.reviews_section
    /\ Len(page.rating_bars) >= 2
    /\ \E k \in 1..2 : LET err == BarError(page.rating_bars[k])
                       IN err # "none" /\ ~BarErrorCaught(err)

\* product['url'] = a_tag['href'] raises KeyError on an anchor without href
ItemsRaise(items) == \E i \in DOMAIN items : items[i].href = <<>>
ItemUrls(items) == [i \in DOMAIN items |-> items[i].href]

\* the two carousels (lines 510-570)
RelatedData(d, page) ==
    IF ItemsRaise(page.might_like) THEN d
    ELSE LET d1 == Put(d, "people_also_like", ItemUrls(page.might_like))
         IN IF ItemsRaise(page.also_bought) THEN d1
            ELSE Put(d1, "people_also_bought", ItemUrls(page.also_bought))

\* ------------------------------------------------------------ the reviews
\* float(word) and int(word) succeed on these words
FloatWords == {"4", "4.5", "5"}
IntWords == {"4", "5"}
Number(word) == [kind |-> "number", value |-> word]

\* overall_rating and total_reviews (lines 413-431): a missing element makes
\* find_element raise, which ends the block with the keys set so far; so
\* does the IndexError of split()[0] on a text without a word.
OverallData(d, block) ==
    IF block.overall = <<>> THEN d
    ELSE LET text == block.overall[1]
             d1 == Put(d, "overall_rating",
                       IF Len(text) = 1 /\ text[1] \in FloatWords
                       THEN Number(text[1]) ELSE None)
         IN IF block.total = <<>> THEN d1
            ELSE LET words == Strip(block.total[1], {"(", ")"})
                 IN IF words = <<>> THEN d1
                    ELSE Put(d1, "total_reviews",
                             IF words[1] \in IntWords THEN Number(words[1]) ELSE None)

\* How the attempt to click "View All Reviews" can end (lines 433-452).
ExpansionOutcomes(block) ==
    IF block.view_all THEN {"clicked", "failed"} ELSE {"absent"}

\* The review sections in the document once the attempt has ended.
DomReviews(block, outcome) ==
    IF outcome = "clicked" THEN block.expanded ELSE block.collapsed

\* soup = BeautifulSoup(self.driver.page_source, ...) after the attempt
\* (line 455); `early` is the snapshot taken at line 268.
StaleSnapshot(early, current) == early
ReviewSnapshot(early, current) == current

\* review_data of one section (lines 462-497): a key per element found.
ReviewText(button) ==
    IF button.aria # <<>>
    THEN SelectSeq(button.aria, LAMBDA t : t # "... Read More")
    ELSE SelectSeq(button.text, LAMBDA t : t # "Read More")
ReviewData(sec) ==
    LET d1 == IF sec.rating = <<>> THEN <<>>
              ELSE Put(<<>>, "rating",
                       IF sec.rating[1] # <<>> /\ sec.rating[1][1] \in FloatWords
                       THEN Number(sec.rating[1][1]) ELSE None)
        d2 == IF sec.date = <<>> THEN d1 ELSE Put(d1, "date", sec.date[1])
        d3 == IF sec.status = <<>> THEN d2 ELSE Put(d2, "status", sec.status[1])
        d4 == IF sec.title = <<>> THEN d3 ELSE Put(d3, "title", sec.title[1])
    IN IF sec.button = <<>> THEN d4 ELSE Put(d4, "text", ReviewText(sec.button[1]))

\* for review_section in review_sections: ... if review_data: append
RECURSIVE AllReviews(_)
AllReviews(sections) ==
    IF sections = <<>> THEN <<>>
    ELSE (IF ReviewData(sections[1]) = <<>> THEN <<>> ELSE <<ReviewData(sections[1])>>)
         \o AllReviews(Tail(sections))

CallNo == Len(calls)

\* time.sleep(random.uniform(2, 5)) before the page is loaded
PreNavigationDelay ==
    /\ sp_pc = "delay"
    /\ sp_steps' = Append(sp_steps, "delay")
    /\ sp_pc' = "get"
    /\ UNCHANGED <<sp_signals, product_url, product_page, sp_ready, product_data,
                   sp_raised, sp_return, revVars>>
    /\ UNCHANGED <<lcVars, artifacts, batchVars, sessionVars, mainVars, dlVars>>

\* time.sleep(...); self.driver.get(product_url)
LoadProductPage ==
    /\ sp_pc = "get"
    /\ sp_steps' = Append(sp_steps, "load")
    /\ UNCHANGED revVars
    /\ \/ \E p \in ProductPageSamples :
            /\ product_page' = p
            /\ sp_pc' = "wait"
            /\ UNCHANGED sp_return
       \/ \E e \in ProductGetErrors :
            /\ sp_return' = [kind |-> "raised", value |-> <<e>>]
            /\ sp_pc' = "returned"
            /\ UNCHANGED product_page
    /\ UNCHANGED <<sp_signals, product_url, sp_ready, product_data, sp_raised>>
    /\ UNCHANGED <<lcVars, artifacts, batchVars, sessionVars, mainVars, dlVars>>

\* if not self.wait_for_page_load(timeout=30): log a warning -- the call
\* goes on to the bot check either way
CheckSkippedAfterFailedWait(waited) == IF waited THEN "bot" ELSE "price"
NextAfterWait(waited) == "bot"

\* if not self.wait_for_page_load(timeout=30): log and continue
WaitProductPage ==
    /\ sp_pc = "wait"
    /\ sp_steps' = Append(sp_steps, "wait")
    /\ UNCHANGED revVars
    /\ \E rs \in ReadinessSignals : \E jq \in AjaxSignals(rs) :
          LET waited == wait_for_page_load(rs, jq)
          IN /\ sp_signals' = <<[readiness |-> rs, ajax |-> jq]>>
             /\ IF waited.kind = "returned"
                THEN /\ sp_ready' = waited.value
                     /\ sp_pc' = NextAfterWait(waited.value)
                     /\ UNCHANGED sp_return
                ELSE /\ sp_return' = [kind |-> "raised", value |-> waited.value]
                     /\ sp_pc' = "returned"
                     /\ UNCHANGED sp_ready
    /\ UNCHANGED <<product_url, product_page, product_data, sp_raised>>
    /\ UNCHANGED <<lcVars, artifacts, batchVars, sessionVars, mainVars, dlVars>>

\* the bot-detection check (lines 244-250)
CheckBotDetection ==
    /\ sp_pc = "bot"
    /\ sp_steps' = Append(sp_steps, "challenge")
    /\ UNCHANGED revVars
    /\ IF BotDetected(product_page)
       THEN /\ artifacts' = Append(artifacts,
                  [kind |-> "asos_bot_detection", markup |-> product_page,
                   call |-> CallNo])
            /\ sp_return' = [kind |-> "raised", value |-> <<BotError>>]
            /\ sp_pc' = "returned"
       ELSE /\ sp_pc' = "price"
            /\ UNCHANGED <<artifacts, sp_return>>
    /\ UNCHANGED <<sp_signals, product_url, product_page, sp_ready, product_data, sp_raised>>
    /\ UNCHANGED <<lcVars, batchVars, sessionVars, mainVars, dlVars>>

\* product_data = {}; the price lookup (lines 253-266)
ExtractPrice ==
    /\ sp_pc = "price"
    /\ sp_steps' = Append(sp_steps, "price")
    /\ UNCHANGED revVars
    /\ product_data' = IF product_page.price # <<>>
                       THEN Put(<<>>, "price", ParsePrice(product_page.price))
                       ELSE <<>>
    /\ sp_pc' = "name"
    /\ UNCHANGED <<sp_signals, product_url, product_page, sp_ready, sp_raised, sp_return>>
    /\ UNCHANGED <<lcVars, artifacts, batchVars, sessionVars, mainVars, dlVars>>

\* name and brand (lines 268-276)
ExtractNameBrand ==
    /\ sp_pc = "name"
    /\ sp_steps' = Append(sp_steps, "name_brand")
    /\ UNCHANGED revVars
    /\ LET d1 == IF product_page.name # <<>>
                 THEN Put(product_data, "name", product_page.name)
                 ELSE product_data
       IN product_data' = IF product_page.brand # <<>>
                          THEN Put(d1, "brand", product_page.brand) ELSE d1
    /\ sp_pc' = "ratings"
    /\ UNCHANGED <<sp_signals, product_url, product_page, sp_ready, sp_raised, sp_return>>
    /\ UNCHANGED <<lcVars, artifacts, batchVars, sessionVars, mainVars, dlVars>>

\* ratings (lines 307-358); an uncaught error leaves the inner try
ExtractRatings ==
    /\ sp_pc = "ratings"
    /\ sp_steps' = Append(sp_steps, "ratings")
    /\ UNCHANGED revVars
    /\ IF RatingsRaise(product_page)
       THEN /\ sp_raised' = <<Exc("IndexError", "list index out of range")>>
            /\ sp_pc' = "debug"
            /\ UNCHANGED product_data
       ELSE /\ product_data' = Put(product_data, "ratings", RatingsData(product_page))
            /\ sp_pc' = "reviews"
            /\ UNCHANGED sp_raised
    /\ UNCHANGED <<sp_signals, product_url, product_page, sp_ready, sp_return>>
    /\ UNCHANGED <<lcVars, artifacts, batchVars, sessionVars, mainVars, dlVars>>

\* all_reviews = []; the wait for the reviews section, the overall rating
\* and the attempt to expand the list (lines 395-452)
ExpandReviews ==
    /\ sp_pc = "reviews"
    /\ sp_steps' = Append(sp_steps, "reviews_expand")
    /\ IF product_page.reviews.section
       THEN /\ product_data' = OverallData(product_data, product_page.reviews)
            /\ \E o \in ExpansionOutcomes(product_page.reviews) : expansion' = o
       ELSE /\ expansion' = "no_section"
            /\ UNCHANGED product_data
    /\ sp_pc' = "snapshot"
    /\ UNCHANGED review_soup
    /\ UNCHANGED <<sp_signals, product_url, product_page, sp_ready, sp_raised, sp_return>>
    /\ UNCHANGED <<lcVars, artifacts, batchVars, sessionVars, mainVars, dlVars>>

\* the snapshot and the loop over its review sections (lines 454-500), and
\* product_data['all_reviews'] = all_reviews (line 508)
SnapshotReviews ==
    /\ sp_pc = "snapshot"
    /\ sp_steps' = Append(sp_steps, "reviews_parse")
    /\ IF expansion = "no_section"
       THEN /\ review_soup' = <<>>
            /\ product_data' = Put(product_data, "all_reviews", <<>>)
       ELSE LET soup == ReviewSnapshot(product_page.reviews.collapsed,
                                       DomReviews(product_page.reviews, expansion))
            IN /\ review_soup' = <<soup>>
               /\ product_data' = Put(product_data, "all_reviews", AllReviews(soup))
    /\ sp_pc' = "related"
    /\ UNCHANGED expansion
    /\ UNCHANGED <<sp_signals, product_url, product_page, sp_ready, sp_raised, sp_return>>
    /\ UNCHANGED <<lcVars, artifacts, batchVars, sessionVars, mainVars, dlVars>>

\* "You Might Also Like" and "People Also Bought" (lines 510-570)
ExtractRelated ==
    /\ sp_pc = "related"
    /\ sp_steps' = Append(sp_steps, "related")
    /\ UNCHANGED revVars
    /\ product_data' = RelatedData(product_data, product_page)
    /\ sp_pc' = "rest"
    /\ UNCHANGED <<sp_signals, product_url, product_page, sp_ready, sp_raised, sp_return>>
    /\ UNCHANGED <<lcVars, artifacts, batchVars, sessionVars, mainVars, dlVars>>

\* description, url and the price gate (lines 572-635)
FinishRecord ==
    /\ sp_pc = "rest"
    /\ sp_steps' = Append(sp_steps, "rest")
    /\ UNCHANGED revVars
    /\ LET d1 == IF product_page.description # <<>>
                 THEN Put(product_data, "description", product_page.description)
                 ELSE product_data
           d2 == Put(d1, "url", product_url)
       IN /\ product_data' = d2
          /\ IF PriceGate(d2)
             THEN /\ sp_return' = [kind |-> "returned", value |-> d2]
                  /\ sp_pc' = "returned"
             ELSE /\ sp_pc' = "debug"
                  /\ UNCHANGED sp_return
    /\ UNCHANGED <<sp_signals, product_url, product_page, sp_ready, sp_raised>>
    /\ UNCHANGED <<lcVars, artifacts, batchVars, sessionVars, mainVars, dlVars>>

\* the debug dump and the final raise (lines 636-645)
WriteProductDebug ==
    /\ sp_pc = "debug"
    /\ sp_steps' = Append(sp_steps, "debug")
    /\ UNCHANGED revVars
    /\ artifacts' = Append(artifacts,
           [kind |-> "asos_product_debug", markup |-> product_page,
            call |-> CallNo])
    /\ sp_return' = [kind |-> "raised", value |-> <<NoDetailsError>>]
    /\ sp_pc' = "returned"
    /\ UNCHANGED <<sp_signals, product_url, product_page, sp_ready, product_data, sp_raised>>
    /\ UNCHANGED <<lcVars, batchVars, sessionVars, mainVars, dlVars>>

\* ================================================ callers of scrape_product
FirstLink == SiteOrigin \o <<"/prd/", "1">>
LinkSamples == {FirstLink, SiteOrigin \o <<"/prd/", "2">>}

\* Python: s[:n]
Truncate(s, n) == SubSeq(s, 1, Min(n, Len(s)))

\* The links a batch loop iterates over: scrape_category first cuts the
\* collected links down to max_products, main() takes them all.
LoopLinks == IF caller = "scrape_category" THEN Truncate(links, max_products) ELSE links

\* The caller enters scrape_product(url).
BeginCall(url) ==
    /\ calls' = Append(calls, url)
    /\ product_url' = url
    /\ product_page' = NoPage
    /\ sp_ready' = FALSE
    /\ sp_signals' = <<>>
    /\ product_data' = <<>>
    /\ sp_raised' = <<>>
    /\ sp_return' = NoReturn
    /\ sp_steps' = <<>>
    /\ expansion' = "pending"
    /\ review_soup' = <<>>
    /\ sp_pc' = "delay"

\* How a finished call of scrape_product is logged in the history.
OutcomeOf(ret) ==
    IF ret.kind = "raised" THEN ret.value[1].msg
    ELSE IF ret.value = <<>> THEN "empty" ELSE "record"

\* formatted_data of main() (lines 111-138)
Formatted(d, i, link) ==
    [ product_id |-> Get(d, "id", i),
      source |-> [website |-> "asos", url |-> link, category |-> "cat"],
      product_info |->
          [ name |-> Get(d, "name", <<>>),
            price |-> Get(d, "price", [kind |-> "float", value |-> <<"0", ".", "0">>]),
            description |-> Get(d, "description", <<>>),
            brand |-> Get(d, "brand", <<>>),
            ratings |-> Get(d, "ratings", <<>>) ],
      reviews |-> Get(d, "reviews", <<>>) ]

\* review_<id>_<n>.json, one per entry of all_reviews (lines 154-172)
ReviewFiles(rec, d) ==
    LET all == Get(d, "all_reviews", <<>>)
    IN [n \in DOMAIN all |->
          [product_id |-> rec.product_id, review_number |-> n, review |-> all[n]]]

\* except Exception: log; continue -- the index the loop goes on with
AbortBatch(i) == Len(links) + 1
OnProductError(i) == i + 1

\* for i, link in enumerate(product_links, 1): scraper.scrape_product(link)
MainCallScrape ==
    /\ caller = "main"
    /\ batch_pc = "loop"
    /\ idx <= Len(LoopLinks)
    /\ BeginCall(LoopLinks[idx])
    /\ batch_pc' = "in_call"
    /\ UNCHANGED <<caller, links, max_products, idx, tries, outcomes, stored,
                   scraped_products, combined_save, review_files>>
    /\ UNCHANGED <<lcVars, artifacts, sessionVars, mainVars, dlVars>>

\* The rest of the loop body (lines 106-178) once scrape_product ended.
MainHandleResult ==
    /\ caller = "main"
    /\ batch_pc = "in_call"
    /\ sp_pc = "returned"
    /\ outcomes' = Append(outcomes, OutcomeOf(sp_return))
    /\ IF sp_return.kind = "returned"
       THEN /\ idx' = idx + 1
            /\ IF sp_return.value = <<>>
               THEN UNCHANGED <<scraped_products, stored, review_files>>
               ELSE LET rec == Formatted(sp_return.value, idx, LoopLinks[idx])
                    IN /\ scraped_products' = Append(scraped_products, rec)
                       /\ stored' = Append(stored, rec)
                       /\ review_files' =
                             review_files \o ReviewFiles(rec, sp_return.value)
       ELSE /\ idx' = OnProductError(idx)
            /\ UNCHANGED <<scraped_products, stored, review_files>>
    /\ batch_pc' = IF idx' > Len(LoopLinks) THEN "save" ELSE "loop"
    /\ sp_pc' = "idle"
    /\ UNCHANGED <<caller, links, max_products, tries, calls, combined_save>>
    /\ UNCHANGED <<sp_signals, product_url, product_page, sp_ready, product_data, sp_raised,
                   sp_return, sp_steps, revVars>>
    /\ UNCHANGED <<lcVars, artifacts, sessionVars, mainVars, dlVars>>

\* if scraped_products: storage.save_json(scraped_products, ...)
MainCombinedSave ==
    /\ caller = "main"
    /\ batch_pc = "save"
    /\ combined_save' = IF scraped_products # <<>> THEN <<scraped_products>> ELSE <<>>
    /\ batch_pc' = "done"
    /\ UNCHANGED <<caller, links, max_products, idx, tries, calls, outcomes, stored,
                   scraped_products, review_files>>
    /\ UNCHANGED <<lcVars, artifacts, spVars, sessionVars, mainVars, dlVars>>

\* ------------------------------------------- scrape_with_retry (backoff)
\* backoff.on_exception(expo, (WebDriverException, NewConnectionError), ...)
BackoffCatches(e) ==
    e.type \in {"WebDriverException", "TimeoutException", "NewConnectionError"}
\* giveup=lambda e: "Failed to establish a new connection" not in str(e)
Giveup(e) == e.msg # "Failed to establish a new connection"

RetryCallScrape ==
    /\ caller = "scrape_with_retry"
    /\ batch_pc = "loop"
    /\ tries' = tries + 1
    /\ BeginCall(links[1])
    /\ batch_pc' = "in_call"
    /\ UNCHANGED <<caller, links, max_products, idx, outcomes, stored,
                   scraped_products, combined_save, review_files>>
    /\ UNCHANGED <<lcVars, artifacts, sessionVars, mainVars, dlVars>>

\* The names bound in main() of test_single_product.py when the try block
\* of line 78 is left: product_data is bound by the assignment of line 80,
\* which completes only if scrape_with_retry returned.
CallerLocals(ret) == IF ret.kind = "returned" THEN {"product_data"} ELSE {}

\* What main() writes: product_<id>.json after a return (lines 82-89), or
\* product_<id>_partial.json if product_data is bound (lines 99-106).
SavedFile(ret) ==
    IF ret.kind = "returned"
    THEN <<[file |-> "product", data |-> ret.value]>>
    ELSE IF "product_data" \in CallerLocals(ret)
         THEN <<[file |-> "partial", data |-> ret.value]>>
         ELSE <<>>

\* What scrape_product logs when it fails (lines 636-645): the error
\* messages and the URL, each a text.
ErrorLog(url, e) == <<<<e.msg>>, url>>

RetryHandleResult ==
    /\ caller = "scrape_with_retry"
    /\ batch_pc = "in_call"
    /\ sp_pc = "returned"
    /\ outcomes' = Append(outcomes, OutcomeOf(sp_return))
    /\ batch_pc' = IF /\ sp_return.kind = "raised"
                      /\ BackoffCatches(sp_return.value[1])
                      /\ ~Giveup(sp_return.value[1])
                      /\ tries < MaxTries
                   THEN "loop" ELSE "done"
    /\ stored' = IF batch_pc' = "done" THEN stored \o SavedFile(sp_return) ELSE stored
    /\ sp_pc' = "idle"
    /\ UNCHANGED <<caller, links, max_products, idx, tries, calls,
                   scraped_products, combined_save, review_files>>
    /\ UNCHANGED <<sp_signals, product_url, product_page, sp_ready, product_data, sp_raised,
                   sp_return, sp_steps, revVars>>
    /\ UNCHANGED <<lcVars, artifacts, sessionVars, mainVars, dlVars>>

\* ------------------------------------------- BaseScraper.scrape_category
\* price of scrapers/asos_scraper.py (lines 307-311):
\* float(price_elem.text.strip().replace('Â£', '')), 0.0 on any error
ZeroPrice == [kind |-> "float", value |-> <<"0", ".", "0">>]
ScrapersParsePrice(text) ==
    LET stripped == SelectSeq(text, LAMBDA t : t # "Â£")
    IN IF IsFloat(stripped) THEN [kind |-> "float", value |-> stripped]
       ELSE ZeroPrice

\* The record of scrapers/asos_scraper.py scrape_product (lines 347-363).
SeleniumRecord(link, page) ==
    [ product_id |-> link[Len(link)],
      source |-> [website |-> "ASOS", url |-> link],
      product_info |-> [name |-> page.name, price |-> ScrapersParsePrice(page.price)] ]

\* The product pages scrape_category is tried with: they differ in the
\* title and price elements, the others are read tolerantly.
ScrapersPageSamples ==
    {p \in ProductPageSamples :
        /\ p.text = BasePage.text
        /\ p.rating_bars = BasePage.rating_bars
        /\ p.might_like = BasePage.might_like
        /\ p.reviews = BasePage.reviews}

\* One iteration of `for link in product_links` (lines 96-104): that
\* scrape_product returns {} on any error (a page without product title
\* makes its first wait raise) and a record otherwise.
CategoryScrapeLink ==
    /\ caller = "scrape_category"
    /\ batch_pc = "loop"
    /\ idx <= Len(LoopLinks)
    /\ calls' = Append(calls, LoopLinks[idx])
    /\ \E p \in ScrapersPageSamples :
          /\ product_page' = p
          /\ IF p.name # <<>>
             THEN /\ scraped_products' =
                        Append(scraped_products, SeleniumRecord(LoopLinks[idx], p))
                  /\ outcomes' = Append(outcomes, "record")
             ELSE /\ outcomes' = Append(outcomes, "empty")
                  /\ UNCHANGED scraped_products
    /\ idx' = idx + 1
    /\ batch_pc' = IF idx' > Len(LoopLinks) THEN "save" ELSE "loop"
    /\ UNCHANGED <<caller, links, max_products, tries, stored, combined_save, review_files>>
    /\ UNCHANGED <<sp_pc, product_url, sp_ready, sp_signals, product_data,
                   sp_raised, sp_return, sp_steps, revVars>>
    /\ UNCHANGED <<lcVars, artifacts, sessionVars, mainVars, dlVars>>

\* return products; main_asos.py dumps them to asos_products.json
CategoryReturn ==
    /\ caller = "scrape_category"
    /\ batch_pc = "save"
    /\ combined_save' = <<scraped_products>>
    /\ batch_pc' = "done"
    /\ UNCHANGED <<caller, links, max_products, idx, tries, calls, outcomes, stored,
                   scraped_products, review_files>>
    /\ UNCHANGED <<lcVars, artifacts, spVars, sessionVars, mainVars, dlVars>>

\* -------------------------------- specification of the product scraping
\* The link lists handed to a caller. The page a product URL serves does not
\* depend on the URL, so the lists are taken with a fixed first link.
CollectedLinks ==
    {s \in SeqsUpTo(LinkSamples, MaxLinks) : s # <<>> /\ s[1] = FirstLink}

InitScrape ==
    /\ lc_pc = "idle"
    /\ fixture = <<>>
    /\ site = "live"
    /\ broken_selectors = {}
    /\ caller \in {"main", "scrape_with_retry", "scrape_category"}
    /\ variant = IF caller = "scrape_category" THEN "scrapers" ELSE "fashion_scraper"
    /\ grids = <<>>
    /\ InitLinkVars
    /\ artifacts = <<>>
    /\ InitProductVars
    /\ links \in IF caller = "scrape_with_retry"
                 THEN {s \in CollectedLinks : Len(s) = 1}
                 ELSE CollectedLinks
    /\ max_products \in IF caller = "scrape_category" THEN 1..MaxLinks ELSE {0}
    /\ batch_pc = "loop"
    /\ idx = 1
    /\ tries = 0
    /\ calls = <<>>
    /\ outcomes = <<>>
    /\ stored = <<>>
    /\ scraped_products = <<>>
    /\ combined_save = <<>>
    /\ review_files = <<>>
    /\ InitSessionVars
    /\ InitMainVars
    /\ InitDlVars

NextScrape ==
    \/ MainCallScrape
    \/ MainHandleResult
    \/ MainCombinedSave
    \/ RetryCallScrape
    \/ RetryHandleResult
    \/ CategoryScrapeLink
    \/ CategoryReturn
    \/ PreNavigationDelay
    \/ LoadProductPage
    \/ WaitProductPage
    \/ CheckBotDetection
    \/ ExtractPrice
    \/ ExtractNameBrand
    \/ ExtractRatings
    \/ ExpandReviews
    \/ SnapshotReviews
    \/ ExtractRelated
    \/ FinishRecord
    \/ WriteProductDebug

SpecScrape == InitScrape /\ [][NextScrape]_vars

\* =================================================== claims: link collection

NoDuplicates(s) == \A i, j \in DOMAIN s : i # j => s[i] # s[j]

\* URL structure, as a URL parser sees it.
IsAbsolute(u) == Len(u) >= 2 /\ u[1] = "https://"
Host(u) == u[2]
IsQueryStart(tok) == tok \in {"?u=", "?cid="}
RECURSIVE PathOf(_)
PathOf(rest) ==
    IF rest = <<>> \/ IsQueryStart(rest[1]) THEN <<>>
    ELSE <<rest[1]>> \o PathOf(Tail(rest))
UrlPath(u) == PathOf(SubSeq(u, 3, Len(u)))
OnSiteDomain(u) == IsAbsolute(u) /\ "asos.com" \in Subs(Host(u))
IsProductUrl(u) == OnSiteDomain(u) /\ Contains(UrlPath(u), "/prd/")

Returned == lc_return.kind = "returned"
Failed == lc_return.kind = "raised"

\* The position at which a returned URL is first seen on the loaded page.
SeenAt(u) == {k \in DOMAIN page_source : Resolve(page_source[k].href, current_url) = u}
FirstSeen(u) == CHOOSE k \in SeenAt(u) : \A m \in SeenAt(u) : k <= m
FirstSeenOrder(s) ==
    /\ \A i \in DOMAIN s : SeenAt(s[i]) # {}
    /\ \A i, j \in DOMAIN s : i < j => FirstSeen(s[i]) < FirstSeen(s[j])

\* C1: every sequence returned by get_product_links, on the live-DOM path
\* and on the static-markup fallback path alike, is non-empty, holds no URL
\* twice and keeps the URLs in first-seen page order.
C1_ReturnedLinksUniqueOrdered ==
    Returned =>
        /\ lc_return.value # <<>>
        /\ NoDuplicates(lc_return.value)
        /\ FirstSeenOrder(lc_return.value)

\* C2: every returned URL is absolute, its host belongs to the site's domain
\* and its path matches the product-detail pattern /prd/.
C2_ReturnedLinksAreProductUrls ==
    Returned => \A i \in DOMAIN lc_return.value : IsProductUrl(lc_return.value[i])

\* C3 (as claimed): an attempt that fails with the fatal off-domain redirect
\* is the last one: no page load follows it.
C3_FatalFailureNotRetried ==
    \A i \in DOMAIN attempt_errors :
        attempt_errors[i] = RedirectError => page_loads <= i

\* C3 (amended): the wrapper does not classify failures: it gives up only
\* after the third failed attempt, whatever the errors were, and until then
\* every failed attempt is followed by the next one.
C3_EveryFailureRetried ==
    /\ Failed => Len(attempt_errors) = StopAttempts /\ page_loads = StopAttempts
    /\ (attempt_number > 0 /\ Len(attempt_errors) < StopAttempts)
          => attempt_number = Len(attempt_errors) + 1

\* a redirect failure on the first attempt followed by a second page load
C3_RedirectRetried ==
    /\ Len(attempt_errors) >= 1
    /\ attempt_errors[1] = RedirectError
    /\ page_loads >= 2

\* C7: when attempts 1 and 2 fail and attempt 3 succeeds the wrapper returns
\* the result of attempt 3, exactly 3 attempts (page loads) were made and the
\* delay before attempt 3 is not smaller than the delay before attempt 2.
C7_ThirdAttemptResultReturned ==
    (lc_pc = "done" /\ Len(attempt_errors) = 2) =>
        /\ Returned
        /\ lc_return.value = product_links
        /\ attempt_number = 3
        /\ page_loads = 3
        /\ Len(delays) = 2
        /\ delays[2] >= delays[1]

\* two failed attempts, then a successful third
C7_FailFailSucceed ==
    lc_pc = "done" /\ Len(attempt_errors) = 2 /\ Returned /\ page_loads = 3

\* C8 (as claimed): the delay grows exponentially with the attempt number
\* from the 4 s floor, capped at the 10 s ceiling.
C8_DelayGrowsExponentially ==
    \A i \in DOMAIN delays : delays[i] = Min(WaitMin * Pow2(i - 1), WaitMax)

\* C8 (amended): every delay between attempts equals the 4 s floor (the
\* exponential term 2^(n-1) stays below it for the 2 delays that 3 attempts
\* allow), so delays never decrease and never exceed the 10 s ceiling.
C8_DelayStaysAtFloor ==
    /\ Len(delays) <= StopAttempts - 1
    /\ \A i \in DOMAIN delays : delays[i] = WaitMin /\ delays[i] <= WaitMax
    /\ \A i, j \in DOMAIN delays : i <= j => delays[i] <= delays[j]

\* both delays of a three-attempt call were slept
C8_TwoDelays == Len(delays) = 2 /\ attempt_number = 3

\* C9: when every attempt fails the wrapper stops after 3 attempts and the
\* caller receives the error raised by the last attempt itself.
C9_LastErrorSurfaced ==
    Failed =>
        /\ page_loads = StopAttempts
        /\ lc_return.value = <<attempt_errors[Len(attempt_errors)]>>

\* ---------------------------------------------------- the selector cascade
\* What selector k yields on the loaded page when nothing raises.
SelectorYield(k) ==
    CollectFrom(page_source, current_url,
                FindElements(page_source, link_selectors[k]), 1)
\* ... and on a fixture whose driver rejects the broken selectors.
EffectiveYield(k) == IF k \in broken_selectors THEN <<>> ELSE SelectorYield(k)

\* C11: the links returned through the live-DOM path are exactly the valid
\* links of the first selector, in declared order, that yields one: no
\* selector is evaluated once links were gathered, links of other selectors
\* are not in the result, and the cascade ends without links only after the
\* last selector, so a selector that matched elements without a valid link
\* did not stop it.
C11_FirstYieldingSelectorWins ==
    /\ lc_pc = "select" => product_links = <<>>
    /\ (lc_pc = "collected" /\ product_links = <<>>) => sel_idx = Len(link_selectors)
    /\ (Returned /\ lc_path = "dom") =>
          /\ Range(lc_return.value) \subseteq Range(SelectorYield(sel_idx))
          /\ (site = "static" \/ ~swallowed) =>
                /\ lc_return.value = Dedupe(EffectiveYield(sel_idx))
                /\ \A k \in 1..(sel_idx - 1) : EffectiveYield(k) = <<>>

\* a working selector matched elements without a valid link and a selector
\* declared after it produced the result
C11_LaterSelectorYields ==
    /\ Returned
    /\ lc_path = "dom"
    /\ \E k \in 1..(sel_idx - 1) :
          /\ k \notin broken_selectors
          /\ FindElements(page_source, link_selectors[k]) # {}

\* The errors an attempt of get_product_links raises itself.
AttemptErrorKinds == {RedirectError, NoProductsError} \cup CategoryGetErrors

\* C12: an internal error of a selector or of an element's href lookup is
\* swallowed: no attempt ever fails with it, the links of the other elements
\* of the selector are kept, and an attempt in which errors were swallowed
\* fails only as any attempt without links does, after the static fallback
\* found none either.
C12_SelectorErrorsSwallowed ==
    /\ \A i \in DOMAIN attempt_errors : attempt_errors[i] \in AttemptErrorKinds
    /\ raised # <<>> => raised[1] \in AttemptErrorKinds
    /\ (lc_pc = "collected" /\ product_links # <<>>) =>
          product_links =
             CollectFrom(page_source, current_url,
                 FindElements(page_source, link_selectors[sel_idx]) \ stale_elems, 1)
    /\ (lc_pc = "failed" /\ swallowed) =>
          /\ raised = <<NoProductsError>>
          /\ StaticLinks(page_source) = <<>>

\* some selectors raised, then one element of a later selector raised and
\* the link of another element of that selector was returned
C12_LinksKeptAfterErrors ==
    /\ Returned
    /\ lc_path = "dom"
    /\ swallowed
    /\ sel_idx > 1
    /\ stale_elems # {}
    /\ Cardinality(FindElements(page_source, link_selectors[sel_idx])) >= 2

\* ------------------------------------------------- the extraction methods
\* The priority of an extraction method.
MethodRank(m) ==
    CASE m = "container" -> 1
      [] m = "global" -> 2
      [] m = "static" -> 3

\* Every link a method can take from the loaded page.
MethodCandidates(m) ==
    CASE m = "container" ->
            {Resolve(page_source[i].href, current_url) :
                i \in UNION {page_grids[g].anchors : g \in Range(product_containers)}}
      [] m = "global" ->
            {Resolve(page_source[i].href, current_url) : i \in DOMAIN page_source}
      [] m = "static" -> Range(StaticLinks(page_source))

\* C13: the extraction methods of an attempt run in the order container
\* search, page-global search, static-markup parsing; a method runs only
\* when every method before it gathered nothing, the selectors of the global
\* search are evaluated only while nothing is gathered, and the links
\* returned are those of the last method alone.
C13_MethodsInPriorityOrder ==
    LET n == Len(methods_run)
    IN /\ \A i, j \in 1..n :
             i < j => MethodRank(methods_run[i].method) < MethodRank(methods_run[j].method)
       /\ \A i \in 1..(n - 1) : methods_run[i].yield = <<>>
       /\ lc_pc \in {"select", "scrapers_select"} => product_links = <<>>
       /\ Returned =>
             /\ n >= 1
             /\ methods_run[n].yield # <<>>
             /\ lc_path = (IF methods_run[n].method = "global"
                           THEN "dom" ELSE methods_run[n].method)
             /\ Range(lc_return.value) = Range(methods_run[n].yield)
             /\ Range(lc_return.value) \subseteq MethodCandidates(methods_run[n].method)

\* the container search and the global search found nothing and the static
\* markup gave the result
C13_AllThreeMethodsRan ==
    /\ Returned
    /\ Len(methods_run) = 3
    /\ product_containers # <<>>
    /\ lc_path = "static"

\* C14: when no valid link survives any extraction method the attempt has
\* written the page markup to a debug artifact and fails with the "no
\* products" error, after which the wrapper starts a further attempt unless
\* it was the third; get_product_links never returns an empty list.
C14_NoLinksFailsRetryably ==
    /\ Returned => lc_return.value # <<>>
    /\ (lc_pc = "failed" /\ raised = <<NoProductsError>>) =>
          /\ artifacts # <<>>
          /\ artifacts[Len(artifacts)] =
                [kind |-> "asos_debug", markup |-> page_source, call |-> attempt_number]
    /\ \A i \in DOMAIN attempt_errors :
          attempt_errors[i] = NoProductsError =>
             /\ \E j \in DOMAIN artifacts :
                   /\ artifacts[j].kind = "asos_debug"
                   /\ artifacts[j].call = i
                   /\ StaticLinks(artifacts[j].markup) = <<>>
             /\ i < StopAttempts => attempt_number > i

\* the first attempt found no link and failed, a later attempt returned links
C14_NoLinksThenLinks ==
    /\ Returned
    /\ attempt_errors # <<>>
    /\ attempt_errors[1] = NoProductsError
    /\ \E j \in DOMAIN artifacts : artifacts[j].call = 1

\* An href without scheme and host.
IsRelative(h) == h # <<>> /\ h[1] \notin {"https://", "//"}

\* C15: every relative href on the category page whose path holds the
\* product-detail pattern /prd/ -- at its start or after a brand/name prefix
\* -- is returned as the site origin followed by that path, whenever every
\* anchor was read (the static-markup path, or a live-DOM pass without
\* swallowed errors); no returned link is still relative.
C15_RelativeProductPathsPrefixed ==
    (Returned /\ (lc_path = "static" \/ ~swallowed)) =>
        /\ \A k \in DOMAIN page_source :
              LET h == page_source[k].href
              IN (IsRelative(h) /\ Contains(h, "/prd/")) =>
                    (SiteOrigin \o h) \in Range(lc_return.value)
        /\ \A i \in DOMAIN lc_return.value : IsAbsolute(lc_return.value[i])

\* C17: two successive calls of get_product_links on the same static
\* fixture end the same way: the same sequence of links in the same order
\* (or the same error) through the same extraction path.
C17_RecollectionIdentical ==
    (calls_made = 2 /\ lc_pc = "done") =>
        first_result = <<[ret |-> lc_return, path |-> lc_path]>>

\* the second call returned two links through the static-markup path
C17_SecondCallReturned ==
    /\ calls_made = 2
    /\ lc_pc = "done"
    /\ Returned
    /\ lc_path = "static"
    /\ Len(lc_return.value) >= 2


\* ================================================ claims: product scraping

\* The loaded page shows one of the challenge phrases, in any letter case.
ChallengePhraseOnPage(page) ==
    /\ page # NoPage
    /\ \E i \in DOMAIN page.text :
          page.text[i] \in {"verify you are human", "Verify You Are Human",
                            "unusual traffic", "Unusual Traffic"}

ArtifactsOfCall(k) == SelectSeq(artifacts, LAMBDA a : a.call = k)
CallEnded == sp_pc = "returned"

\* C4: on a page showing a bot-challenge phrase scrape_product raises,
\* returns no record and writes exactly one debug artifact holding the page
\* markup; neither the batch loop nor scrape_with_retry calls it again for
\* that link.
C4_BotChallengeFailsOnce ==
    /\ (CallEnded /\ ChallengePhraseOnPage(product_page)) =>
          /\ sp_return = [kind |-> "raised", value |-> <<BotError>>]
          /\ ArtifactsOfCall(CallNo) =
                <<[kind |-> "asos_bot_detection", markup |-> product_page,
                   call |-> CallNo]>>
    /\ \A i \in DOMAIN outcomes :
          outcomes[i] = BotError.msg =>
             /\ caller = "scrape_with_retry" => Len(calls) = i
             /\ caller = "main" => calls = SubSeq(links, 1, Len(calls))

\* a mixed-case challenge page met under scrape_with_retry, which gave up
C4_ChallengeUnderRetry ==
    /\ caller = "scrape_with_retry"
    /\ batch_pc = "done"
    /\ outcomes = <<BotError.msg>>
    /\ Contains(product_page.text, "Unusual Traffic")

\* C5: every record scrape_product returns holds a price and the requested
\* url; on a loaded page without a price element the call raises, returns
\* no record and leaves a debug artifact holding the page markup.
C5_PriceIsSuccessGate ==
    CallEnded =>
        /\ sp_return.kind = "returned" =>
              /\ {"price", "url"} \subseteq DOMAIN sp_return.value
              /\ sp_return.value["url"] = product_url
        /\ (product_page # NoPage /\ product_page.price = <<>>) =>
              /\ sp_return.kind = "raised"
              /\ \E i \in DOMAIN artifacts :
                    /\ artifacts[i].call = CallNo
                    /\ artifacts[i].markup = product_page

\* a page without price whose name was extracted, failed at the gate
C5_GateClosed ==
    /\ CallEnded
    /\ product_page # NoPage
    /\ product_page.price = <<>>
    /\ "name" \in DOMAIN product_data
    /\ sp_return = [kind |-> "raised", value |-> <<NoDetailsError>>]

\* C6: whenever the price resolved scrape_product returns a record; a
\* failure in another field is absorbed at that field and the later fields
\* are still extracted.
C6_FieldFailuresAbsorbed ==
    (CallEnded /\ "price" \in DOMAIN product_data) =>
        /\ sp_return.kind = "returned"
        /\ {"ratings", "url"} \subseteq DOMAIN sp_return.value

\* The links, in order, whose call ended with a record.
RECURSIVE LinksWithRecord(_)
LinksWithRecord(k) ==
    IF k = 0 THEN <<>>
    ELSE IF outcomes[k] = "record"
         THEN Append(LinksWithRecord(k - 1), calls[k])
         ELSE LinksWithRecord(k - 1)
RecordUrls == [i \in DOMAIN scraped_products |-> scraped_products[i].source.url]
BatchCaller == caller \in {"main", "scrape_category"}

\* C10 (as claimed): a finished batch loop has invoked scrape_product
\* exactly once for every collected link, in collection order.
C10_EveryCollectedLinkScraped ==
    (BatchCaller /\ batch_pc = "done") => calls = links

\* C10 (amended): the batch loop invokes scrape_product exactly once, in
\* order, for every link it iterates over -- all collected links in main(),
\* the first max_products of them in scrape_category -- whatever the earlier
\* outcomes; a call that raised or returned nothing adds no record, and the
\* final save is reached with the records of the successful calls.
C10_LoopReachesEveryLink ==
    BatchCaller =>
        /\ calls = SubSeq(LoopLinks, 1, Len(calls))
        /\ caller = "main" => LoopLinks = links
        /\ batch_pc = "done" =>
              /\ calls = LoopLinks
              /\ Len(outcomes) = Len(calls)
              /\ RecordUrls = LinksWithRecord(Len(outcomes))
              /\ combined_save = IF caller = "main" /\ scraped_products = <<>>
                                 THEN <<>> ELSE <<scraped_products>>

\* main(): the first product failed, a later one was scraped and saved
C10_FailureThenRecord ==
    /\ caller = "main"
    /\ batch_pc = "done"
    /\ Len(links) >= 2
    /\ outcomes[1] \notin {"record", "empty"}
    /\ outcomes[Len(outcomes)] = "record"
    /\ combined_save # <<>>

\* ----------------------------------------------------------- price parsing
\* The price value the claim describes for a price text: the number read
\* from the text without currency symbol and thousands separators, or the
\* text itself when that is no number.
ExpectedPrice(text) ==
    LET cleaned == CleanPrice(text)
    IN IF IsFloat(cleaned) THEN [kind |-> "float", value |-> cleaned]
       ELSE [kind |-> "str", value |-> text]

\* C16: "£85.00" yields 85.00 and "£1,234.50" yields 1234.50; a price text
\* that is no number after stripping is kept verbatim as the price, and a
\* page with a price text always gives a record with a price -- in
\* scrape_product of fashion_scraper and of scrapers alike.
C16_PriceParsedOrKeptVerbatim ==
    /\ ExpectedPrice(<<"£", "85", ".", "00">>).value = <<"85", ".", "00">>
    /\ ExpectedPrice(<<"£", "1", ",", "234", ".", "50">>).value = <<"1", "234", ".", "50">>
    /\ (caller # "scrape_category" /\ CallEnded /\ sp_return.kind = "returned") =>
          sp_return.value["price"] = ExpectedPrice(product_page.price)
    /\ (sp_pc \in {"name", "ratings", "related", "rest"} /\ product_page.price # <<>>) =>
          "price" \in DOMAIN product_data
    /\ (caller = "scrape_category" /\ outcomes # <<>>
          /\ outcomes[Len(outcomes)] = "record" /\ product_page.price # <<>>) =>
          scraped_products[Len(scraped_products)].product_info.price
             = ExpectedPrice(product_page.price)

\* ----------------------------------------------------------- partial data
\* The page of the current call was loaded, shows no challenge and has no
\* price element.
PriceMissing ==
    /\ product_page # NoPage
    /\ ~BotDetected(product_page)
    /\ product_page.price = <<>>

\* C18: on a page without price element scrape_product fails, and the name
\* and brand it had resolved reach the caller: they are in what the failure
\* logs, and the partial-result file the caller of scrape_with_retry writes
\* holds them.
C18_PartialFieldsReachCaller ==
    LET partial == {"name", "brand"} \cap DOMAIN product_data
    IN /\ (caller # "scrape_category" /\ CallEnded /\ PriceMissing) =>
             /\ sp_return.kind = "raised"
             /\ \A f \in partial :
                   product_data[f] \in Range(ErrorLog(product_url, sp_return.value[1]))
       /\ (caller = "scrape_with_retry" /\ batch_pc = "done" /\ PriceMissing) =>
             \E i \in DOMAIN stored :
                \A f \in partial :
                   f \in DOMAIN stored[i].data /\ stored[i].data[f] = product_data[f]

\* ------------------------------------------------------ wait_for_page_load
\* The call of scrape_product has waited for the page.
Waited == sp_signals # <<>>

\* C20 (as claimed): the wait returns true when both signals are observed
\* and false when the timeout elapses on either of them; it never raises
\* and the caller goes on.
C20_FalseOnEitherTimeout ==
    Waited =>
        /\ sp_pc # "wait"
        /\ (sp_signals[1].readiness = "complete" /\ sp_signals[1].ajax = "idle")
              => sp_ready
        /\ "timeout" \in {sp_signals[1].readiness, sp_signals[1].ajax} => ~sp_ready

\* C20 (amended): the wait returns true exactly when the readiness signal
\* was observed, whatever became of the AJAX-idle poll; it never raises: the
\* call goes on to the bot check and can only fail with the errors of the
\* later steps.
C20_TrueOnReadiness ==
    /\ Waited =>
          /\ sp_ready = (sp_signals[1].readiness = "complete")
          /\ sp_return.kind = "raised" =>
                sp_return.value[1] \in {BotError, NoDetailsError}
    /\ sp_pc \in {"bot", "price", "name", "ratings", "related", "rest", "debug"}
          => Waited
    /\ (CallEnded /\ caller # "scrape_category" /\ ~Waited) =>
          /\ sp_return.kind = "raised"
          /\ sp_return.value[1] \in ProductGetErrors

\* the AJAX-idle poll timed out, the wait returned true and the call went
\* on to return a record
C20_AjaxTimeoutThenRecord ==
    /\ CallEnded
    /\ sp_signals = <<[readiness |-> "complete", ajax |-> "timeout"]>>
    /\ sp_ready
    /\ sp_return.kind = "returned"


\* ------------------------------------------------ debug-artifact directory
\* Sessions are processes started in one working directory; each runs
\* get_product_links and scrape_product one after the other and writes its
\* debug files, with relative names, into that directory.
MaxClock == 10
MaxWrites == 2

\* f"asos_debug_{int(time.time())}.html" and its two siblings: the name is
\* the prefix of the writing statement and the clock in whole seconds.
DebugPath(prefix, t) == [prefix |-> prefix, timestamp |-> t, suffix |-> ".html"]

\* The debug files an operation can write: get_product_links when no
\* selector gave a link, scrape_product on a challenge page or after the
\* price gate failed.
DebugPrefixes(op) ==
    IF op = "get_product_links" THEN {"asos_debug"}
    ELSE {"asos_bot_detection", "asos_product_debug"}

\* The least time an operation sleeps before it can reach its write: the
\* pauses of the scroll loop, or the delay before the product page.
MinSleep(op) ==
    IF op = "get_product_links" THEN ScrollCount * ScrollPauseMin
    ELSE ProductDelayMin

\* A second passes: every sleeping session has one second less to sleep.
Tick ==
    /\ now < MaxClock
    /\ now' = now + 1
    /\ workers' = [s \in Sessions |->
                     [workers[s] EXCEPT !.sleep_left =
                         IF @ > 0 THEN @ - 1 ELSE 0]]
    /\ UNCHANGED debug_writes
    /\ UNCHANGED <<lcVars, artifacts, spVars, batchVars, mainVars, dlVars>>

\* A session enters get_product_links or scrape_product.
SessionCall(s, op) ==
    /\ workers[s].op = "idle"
    /\ workers' = [workers EXCEPT ![s] = [op |-> op, sleep_left |-> MinSleep(op)]]
    /\ UNCHANGED <<now, debug_writes>>
    /\ UNCHANGED <<lcVars, artifacts, spVars, batchVars, mainVars, dlVars>>

\* with open(debug_path, "w") as f: f.write(page_source), then the
\* operation ends (it raises, or returns what the fallback found).
SessionWriteDebug(s) ==
    /\ workers[s].op # "idle"
    /\ workers[s].sleep_left = 0
    /\ Len(debug_writes) < MaxWrites
    /\ \E prefix \in DebugPrefixes(workers[s].op) :
          debug_writes' = Append(debug_writes,
                                 [by |-> s, path |-> DebugPath(prefix, now)])
    /\ workers' = [workers EXCEPT ![s] = Idle]
    /\ UNCHANGED now
    /\ UNCHANGED <<lcVars, artifacts, spVars, batchVars, mainVars, dlVars>>

\* The operation ends without a debug file.
SessionReturn(s) ==
    /\ workers[s].op # "idle"
    /\ workers[s].sleep_left = 0
    /\ workers' = [workers EXCEPT ![s] = Idle]
    /\ UNCHANGED <<now, debug_writes>>
    /\ UNCHANGED <<lcVars, artifacts, spVars, batchVars, mainVars, dlVars>>

InitArtifacts ==
    /\ lc_pc = "idle"
    /\ fixture = <<>>
    /\ site = "live"
    /\ broken_selectors = {}
    /\ variant = "fashion_scraper"
    /\ grids = <<>>
    /\ InitLinkVars
    /\ artifacts = <<>>
    /\ InitProductVars
    /\ caller = "main"
    /\ InitBatchVars
    /\ InitSessionVars
    /\ InitMainVars
    /\ InitDlVars

NextArtifacts ==
    \/ Tick
    \/ \E s \in Sessions : SessionCall(s, "get_product_links")
    \/ \E s \in Sessions : SessionCall(s, "scrape_product")
    \/ \E s \in Sessions : SessionWriteDebug(s)
    \/ \E s \in Sessions : SessionReturn(s)

SpecArtifacts == InitArtifacts /\ [][NextArtifacts]_vars

\* C19: no two writes of debug artifacts, by one session in sequence or by
\* sessions running in parallel, go to the same file name, so no artifact is
\* overwritten.
C19_DebugPathsUnique ==
    \A i, j \in DOMAIN debug_writes :
        i # j => debug_writes[i].path # debug_writes[j].path

\* the part of it that the sleeps do ensure: one session never writes the
\* same file name twice
SameSessionPathsUnique ==
    \A i, j \in DOMAIN debug_writes :
        (i # j /\ debug_writes[i].by = debug_writes[j].by)
            => debug_writes[i].path # debug_writes[j].path

\* ------------------------------------------- order of the steps of an attempt
\* Positions of an attempt that lie after the check of the landing URL.
PastUrlCheck ==
    lc_pc \in {"wait", "scroll", "select", "containers", "scrapers_scroll",
               "container_links", "scrapers_select", "collected"}

\* The scroll steps the variant makes.
ScrollsToMake == IF variant = "scrapers" THEN ScrapersScrollCount ELSE ScrollCount

\* The scroll steps made so far are at the offsets 1000, 2000, ...
ScrollsIncrease ==
    /\ Len(scrolls) <= ScrollsToMake
    /\ \A i \in DOMAIN scrolls : scrolls[i] = i * ScrollStep
    /\ \A i, j \in DOMAIN scrolls : i < j => scrolls[i] < scrolls[j]

\* A lookup of links has run in the current attempt.
LinksLookedUp ==
    \/ lc_pc \in {"select", "container_links", "scrapers_select", "collected"}
    \/ methods_run # <<>>
    \/ product_links # <<>>

C29_AttemptStartsFresh ==
    /\ lc_pc \notin {"idle", "call", "get"} => page_loads = attempt_number
    /\ lc_pc = "get" => page_loads = attempt_number - 1
    /\ lc_pc \in {"check", "wait", "scroll"} =>
          product_links = <<>> /\ methods_run = <<>>
    /\ lc_pc = "check" => scrolls = <<>> /\ sel_idx = 1
    /\ lc_return.kind = "returned" =>
          \A i \in DOMAIN lc_return.value : SeenAt(lc_return.value[i]) # {}

\* the first attempt found no products, the second one returned links
C29_SecondAttemptReturned ==
    /\ attempt_errors = <<NoProductsError>>
    /\ attempt_number = 2
    /\ page_loads = 2
    /\ lc_return.kind = "returned"
    /\ lc_return.value # <<>>

\* ------------------------------------------------ link-collection artifacts
\* The debug artifacts written by the current attempt.
ArtifactsOfAttempt ==
    SelectSeq(artifacts, LAMBDA a : a.kind = "asos_debug" /\ a.call = attempt_number)

\* C30: an attempt that returns a non-empty link sequence, the static
\* fallback included, has written no debug artifact; an artifact is written
\* only by an attempt that ends with "no products found".
C30_ArtifactOnlyOnNoProducts ==
    (lc_return.kind = "returned" /\ lc_return.value # <<>>) =>
        ArtifactsOfAttempt = <<>>

\* ------------------------------------------------------------ the reviews
ReviewKeys == {"rating", "date", "status", "title", "text"}
IsNumberOrNull(v) == v = None \/ (DOMAIN v = {"kind", "value"} /\ v.kind = "number")
ReturnedRecord ==
    caller # "scrape_category" /\ CallEnded /\ sp_return.kind = "returned"

\* C21: every entry of all_reviews of a returned record has the five keys
\* rating, date, status, title and text -- rating a number or null --
\* whichever elements the markup of the review has.
C21_ReviewEntriesComplete ==
    ReturnedRecord =>
        \A i \in DOMAIN sp_return.value["all_reviews"] :
            LET entry == sp_return.value["all_reviews"][i]
            IN /\ DOMAIN entry = ReviewKeys
               /\ IsNumberOrNull(entry["rating"])

\* C22: every returned record has the keys overall_rating, total_reviews
\* and all_reviews, the first two a number or null, also for a page without
\* reviews section.
C22_ReviewSummaryKeysPresent ==
    ReturnedRecord =>
        /\ {"overall_rating", "total_reviews", "all_reviews"}
              \subseteq DOMAIN sp_return.value
        /\ IsNumberOrNull(sp_return.value["overall_rating"])
        /\ IsNumberOrNull(sp_return.value["total_reviews"])

\* ------------------------------------------------- order of the steps
\* The steps of scrape_product in the order of the function body.
StepOrder ==
    <<"delay", "load", "wait", "challenge", "price", "name_brand", "ratings",
      "reviews_expand", "reviews_parse", "related", "rest">>
StepsBeforeDebug == SelectSeq(sp_steps, LAMBDA st : st # "debug")
ExtractionSteps == Range(SubSeq(StepOrder, 5, Len(StepOrder)))

\* C23: the steps of a call of scrape_product come in the order delay, page
\* load, readiness wait, challenge check, field extraction; from a page on
\* which the check was positive no field is extracted and no record
\* assembled; a failed wait does not skip the check.
C23_StepsInOrder ==
    caller # "scrape_category" =>
        /\ StepsBeforeDebug = SubSeq(StepOrder, 1, Len(StepsBeforeDebug))
        /\ (product_page # NoPage /\ BotDetected(product_page)) =>
              /\ Range(sp_steps) \cap (ExtractionSteps \cup {"debug"}) = {}
              /\ product_data = <<>>
              /\ sp_return.kind # "returned"
        /\ (Waited /\ ~sp_ready /\ CallEnded) => "challenge" \in Range(sp_steps)

\* a call whose wait returned false ended at the positive challenge check
C23_ChallengeAfterFailedWait ==
    /\ CallEnded
    /\ Waited /\ ~sp_ready
    /\ BotDetected(product_page)
    /\ sp_steps = <<"delay", "load", "wait", "challenge">>
    /\ sp_return = [kind |-> "raised", value |-> <<BotError>>]

\* ------------------------------------------------- the reviews snapshot
\* C25: the snapshot from which all_reviews is built is the document after
\* the attempt to expand the list has ended -- clicked, failed or no button;
\* every entry of all_reviews comes from that snapshot.
C25_SnapshotAfterExpansion ==
    /\ review_soup # <<>> =>
          /\ expansion \in {"clicked", "failed", "absent"}
          /\ review_soup[1] = DomReviews(product_page.reviews, expansion)
          /\ "all_reviews" \in DOMAIN product_data
          /\ \A i \in DOMAIN product_data["all_reviews"] :
                \E k \in DOMAIN review_soup[1] :
                   product_data["all_reviews"][i] = ReviewData(review_soup[1][k])
    /\ ("all_reviews" \in DOMAIN product_data /\ product_data["all_reviews"] # <<>>) =>
          /\ review_soup # <<>>
          /\ "reviews_expand" \in Range(sp_steps)

\* the list was expanded and the returned all_reviews holds an entry that
\* the document showed only after the expansion
C25_ExpandedEntryReturned ==
    /\ ReturnedRecord
    /\ expansion = "clicked"
    /\ Len(sp_return.value["all_reviews"])
          > Len(AllReviews(product_page.reviews.collapsed))

\* ------------------------------------------------ reviews in the output
\* C27: the reviews scrape_product extracted for a product are the reviews
\* list of the record main() hands to the storage sink for it, in the order
\* of extraction.
C27_ExtractedReviewsStored ==
    (caller = "main" /\ batch_pc \in {"loop", "save", "done"} /\ outcomes # <<>>
       /\ outcomes[Len(outcomes)] = "record") =>
        stored[Len(stored)].reviews = sp_return.value["all_reviews"]

\* ====================================================== main() of main.py
\* args.category: a category URL, a product URL of the site, and a URL of
\* another host with a /cat/ segment
CategoryArgs ==
    { category_url,
      SiteOrigin \o <<"/prd/", "1">>,
      OffSiteUrl \o <<"/cat/">> }

\* url.startswith("https://www.asos.com/") and "/cat/" in url; every path
\* token begins with "/"
validate_asos_url(url) ==
    /\ Len(url) >= 3
    /\ SubSeq(url, 1, 2) = SiteOrigin
    /\ Contains(url, "/cat/")

\* What get_product_links can raise to main(): the last error of the third
\* attempt, wrapped by the decorator.
LinkFailures == {RetryError(NoProductsError), RetryError(PageLoadError)}

\* What get_product_links returns to main() in the sample runs: a category
\* with one product and a category with two; never an empty list.
ReturnableLinks ==
    { <<FirstLink>>, <<FirstLink, SiteOrigin \o <<"/prd/", "2">> >> }

\* `raise` inside the outer try: the finally clause runs before main() is left
RaiseSkipsFinally == "raised"
OnLinksError == "finally_raise"

\* if args.site == "asos" and not validate_asos_url(args.category): return
MainValidate ==
    /\ main_pc = "start"
    /\ main_pc' = IF validate_asos_url(category) THEN "storage" ELSE "returned"
    /\ UNCHANGED <<category, scraper_bound, driver, close_calls>>
    /\ UNCHANGED <<lcVars, artifacts, spVars, batchVars, sessionVars, dlVars>>

\* storage = DataStorage(base_dir=args.output): two mkdir calls, outside the
\* try statement
MainInitStorage ==
    /\ main_pc = "storage"
    /\ \E made \in BOOLEAN : main_pc' = IF made THEN "scraper" ELSE "raised"
    /\ UNCHANGED <<category, scraper_bound, driver, close_calls>>
    /\ UNCHANGED <<lcVars, artifacts, spVars, batchVars, sessionVars, dlVars>>

\* scraper = AsosScraper(): setup_driver starts the browser and then sets
\* its timeouts; when it raises, at either place, `scraper` is not bound.
MainCreateScraper ==
    /\ main_pc = "scraper"
    /\ \E end \in {"ok", "no_browser", "timeouts_failed"} :
          /\ driver' = IF end = "no_browser" THEN "none" ELSE "open"
          /\ scraper_bound' = (end = "ok")
          /\ main_pc' = IF end = "ok" THEN "links" ELSE "finally_raise"
    /\ UNCHANGED <<category, close_calls>>
    /\ UNCHANGED <<lcVars, artifacts, spVars, batchVars, sessionVars, dlVars>>

\* product_links = scraper.get_product_links(args.category), as main() sees
\* the call: one to three page loads, then a list of links or an error that
\* is logged and raised again.
MainGetProductLinks ==
    /\ main_pc = "links"
    /\ \E n \in 1..StopAttempts : page_loads' = page_loads + n
    /\ \/ \E ls \in ReturnableLinks :
             /\ lc_return' = [kind |-> "returned", value |-> ls]
             /\ links' = ls
             /\ idx' = 1
             /\ batch_pc' = "loop"
             /\ main_pc' = "loop"
       \/ \E e \in LinkFailures :
             /\ lc_return' = [kind |-> "raised", value |-> <<e>>]
             /\ main_pc' = OnLinksError
             /\ UNCHANGED <<links, idx, batch_pc>>
    /\ UNCHANGED <<lc_pc, fixture, page_source, current_url, ready, scrolls, sel_idx,
                   product_links, raised, attempt_number, attempt_errors, delays,
                   lc_path, methods_run>>
    /\ UNCHANGED <<lcEnv, lcHist, gridVars>>
    /\ UNCHANGED <<caller, max_products, tries, calls, outcomes, stored,
                   scraped_products, combined_save, review_files>>
    /\ UNCHANGED <<category, scraper_bound, driver, close_calls>>
    /\ UNCHANGED <<artifacts, spVars, sessionVars, dlVars>>

\* close(): if hasattr(self, 'driver'): self.driver.quit()
close(d) == IF d = "open" THEN "quit" ELSE d

\* finally: if 'scraper' in locals(): scraper.close() -- reached when the
\* loop and the combined save are done, or with an exception on its way out;
\* quit() itself may raise.
MainClose ==
    /\ \/ main_pc = "loop" /\ batch_pc = "done"
       \/ main_pc = "finally_raise"
    /\ IF scraper_bound
       THEN /\ close_calls' = close_calls + 1
            /\ driver' = close(driver)
            /\ \E quit_ok \in BOOLEAN :
                  main_pc' = IF quit_ok /\ main_pc = "loop" THEN "returned" ELSE "raised"
       ELSE /\ main_pc' = IF main_pc = "loop" THEN "returned" ELSE "raised"
            /\ UNCHANGED <<driver, close_calls>>
    /\ UNCHANGED <<category, scraper_bound>>
    /\ UNCHANGED <<lcVars, artifacts, spVars, batchVars, sessionVars, dlVars>>

InitMain ==
    /\ lc_pc = "idle"
    /\ fixture = <<>>
    /\ site = "live"
    /\ broken_selectors = {}
    /\ variant = "fashion_scraper"
    /\ grids = <<>>
    /\ InitLinkVars
    /\ artifacts = <<>>
    /\ InitProductVars
    /\ caller = "main"
    /\ InitBatchVars
    /\ InitSessionVars
    /\ main_pc = "start"
    /\ category \in CategoryArgs
    /\ scraper_bound = FALSE
    /\ driver = "none"
    /\ close_calls = 0
    /\ InitDlVars

NextMain ==
    \/ MainValidate
    \/ MainInitStorage
    \/ MainCreateScraper
    \/ MainGetProductLinks
    \/ MainCallScrape
    \/ MainHandleResult
    \/ MainCombinedSave
    \/ MainClose
    \/ PreNavigationDelay
    \/ LoadProductPage
    \/ WaitProductPage
    \/ CheckBotDetection
    \/ ExtractPrice
    \/ ExtractNameBrand
    \/ ExtractRatings
    \/ ExpandReviews
    \/ SnapshotReviews
    \/ ExtractRelated
    \/ FinishRecord
    \/ WriteProductDebug

SpecMain == InitMain /\ [][NextMain]_vars

\* ============================================================ claims: main()

MainEnded == main_pc \in {"returned", "raised"}

\* a driver.get is made by this step: one of the loads of the link
\* collection, or the load step of scrape_product
LoadsPage ==
    \/ page_loads' > page_loads
    \/ /\ Len(sp_steps') = Len(sp_steps) + 1
       /\ sp_steps'[Len(sp_steps')] = "load"

SessionLifecycle ==
    /\ (main_pc # "start" /\ ~validate_asos_url(category)) =>
          /\ main_pc = "returned"
          /\ driver = "none" /\ ~scraper_bound
          /\ page_loads = 0 /\ calls = <<>>
    /\ (MainEnded /\ scraper_bound) => (close_calls >= 1 /\ driver = "quit")
    /\ close_calls >= 1 => MainEnded

\* C26: an invalid category URL ends main() before a browser session exists;
\* once `scraper` is bound, main() is left -- after a full run, after a
\* failed link collection, after any mix of product failures -- only with
\* close() called and the session quit; every page load is made on an open
\* session, none after close().
C26_SessionClosedOnEveryPath ==
    /\ []SessionLifecycle
    /\ [][LoadsPage => (driver = "open" /\ close_calls = 0)]_vars

\* main() returned with the session closed after a run in which one product
\* was stored and another failed
C26_ClosedAfterMixedRun ==
    /\ main_pc = "returned" /\ driver = "quit" /\ close_calls = 1
    /\ \E i, j \in DOMAIN outcomes :
          outcomes[i] = "record" /\ outcomes[j] \notin {"record", "empty"}

\* ====================================================== download_images.py
\* parser.add_argument('--retries', type=int, default=3, ...)
RetriesArgs == 1..MaxRetriesArg

\* product_info.images of a product file: the URLs are told apart by position
ImageLists == {[i \in 1..n |-> <<"image", i>>] : n \in 0..MaxImages}

\* How one pass of the try block of download_image can end: the file is
\* written; requests.get / raise_for_status / iter_content raise a
\* RequestException; mkdir, open or write raise something else.
AttemptEnds == {"ok", "request_error", "error"}

\* download_image(url, save_path): the call of line 143 passes no
\* max_retries, so the parameter takes its default.
MaxRetriesPassed(arg) == DefaultMaxRetries

\* process_product_json up to its loop: `if not image_urls: return`
DownloadStart ==
    /\ dl_pc = "start"
    /\ image_idx' = 1
    /\ dl_pc' = IF image_urls = <<>> THEN "done" ELSE "loop"
    /\ UNCHANGED <<retries_arg, image_urls, max_retries, attempt, dl_attempts,
                   dl_results, dl_sleeps, successful_downloads>>
    /\ UNCHANGED <<lcVars, artifacts, spVars, batchVars, sessionVars, mainVars>>

\* for i, url in enumerate(image_urls, 1): download_image(url, save_path)
CallDownloadImage ==
    /\ dl_pc = "loop"
    /\ image_idx <= Len(image_urls)
    /\ max_retries' = MaxRetriesPassed(retries_arg)
    /\ attempt' = 0
    /\ dl_attempts' = Append(dl_attempts, <<>>)
    /\ dl_sleeps' = <<>>
    /\ dl_pc' = "attempt"
    /\ UNCHANGED <<retries_arg, image_urls, image_idx, dl_results, successful_downloads>>
    /\ UNCHANGED <<lcVars, artifacts, spVars, batchVars, sessionVars, mainVars>>

\* One iteration of `for attempt in range(max_retries)` (lines 56-92).
DownloadAttempt ==
    /\ dl_pc = "attempt"
    /\ attempt < max_retries
    /\ \E end \in AttemptEnds :
          /\ dl_attempts' = [dl_attempts EXCEPT ![image_idx] = Append(@, end)]
          /\ IF end = "ok"
             THEN /\ dl_results' = Append(dl_results, TRUE)
                  /\ dl_pc' = "returned"
                  /\ UNCHANGED <<attempt, dl_sleeps>>
             ELSE IF end = "request_error" /\ attempt < max_retries - 1
             THEN /\ dl_sleeps' = Append(dl_sleeps, (attempt + 1) * BackoffStep)
                  /\ attempt' = attempt + 1
                  /\ UNCHANGED <<dl_results, dl_pc>>
             ELSE /\ dl_results' = Append(dl_results, FALSE)
                  /\ dl_pc' = "returned"
                  /\ UNCHANGED <<attempt, dl_sleeps>>
    /\ UNCHANGED <<retries_arg, image_urls, image_idx, max_retries, successful_downloads>>
    /\ UNCHANGED <<lcVars, artifacts, spVars, batchVars, sessionVars, mainVars>>

\* if download_image(url, save_path): successful_downloads += 1
CountDownload ==
    /\ dl_pc = "returned"
    /\ successful_downloads' =
          IF dl_results[image_idx] THEN successful_downloads + 1
          ELSE successful_downloads
    /\ image_idx' = image_idx + 1
    /\ dl_pc' = IF image_idx' > Len(image_urls) THEN "done" ELSE "loop"
    /\ UNCHANGED <<retries_arg, image_urls, max_retries, attempt, dl_attempts,
                   dl_results, dl_sleeps>>
    /\ UNCHANGED <<lcVars, artifacts, spVars, batchVars, sessionVars, mainVars>>

InitDownload ==
    /\ lc_pc = "idle"
    /\ fixture = <<>>
    /\ site = "live"
    /\ broken_selectors = {}
    /\ variant = "fashion_scraper"
    /\ grids = <<>>
    /\ InitLinkVars
    /\ artifacts = <<>>
    /\ InitProductVars
    /\ caller = "main"
    /\ InitBatchVars
    /\ InitSessionVars
    /\ InitMainVars
    /\ dl_pc = "start"
    /\ retries_arg \in RetriesArgs
    /\ image_urls \in ImageLists
    /\ image_idx = 0
    /\ max_retries = 0
    /\ attempt = 0
    /\ dl_attempts = <<>>
    /\ dl_results = <<>>
    /\ dl_sleeps = <<>>
    /\ successful_downloads = 0

NextDownload ==
    \/ DownloadStart
    \/ CallDownloadImage
    \/ DownloadAttempt
    \/ CountDownload

SpecDownload == InitDownload /\ [][NextDownload]_vars

\* ================================================== claims: image download

\* C28: for each image at most --retries download attempts are made;
\* download_image stops at the first successful attempt and returns true,
\* returns false once the last allowed attempt has failed, and makes no
\* attempt after an error that is not a request error.
C28_AttemptsWithinRetries ==
    \A i \in DOMAIN dl_attempts :
        LET made == dl_attempts[i]
            n == Len(made)
        IN /\ n <= retries_arg
           /\ \A k \in 1..(n - 1) : made[k] = "request_error"
           /\ i \in DOMAIN dl_results =>
                 /\ n >= 1
                 /\ dl_results[i] = (made[n] = "ok")
                 /\ (made[n] = "request_error") => n = retries_arg

====
